---- MODULE Spec2Model ----
(***************************************************************************)
(* A model of cantools' ARXML loader (database/can/formats/arxml.py) and   *)
(* candump log reader (logreader.py).                                      *)
(*                                                                         *)
(* The program is a batch transformation, so every specification below     *)
(* draws one input from a bounded set in its initial predicate and then    *)
(* runs the code's operations on it.  Each part of the program has its own *)
(* group of variables and its own specification; a specification leaves    *)
(* the variables of the other parts at their idle values.                  *)
(*                                                                         *)
(* Python's None is the empty tuple <<>> and a present value v is <<v>>,   *)
(* wherever a value is optional.  A dict is a function on its key set.     *)
(* The text of an XML element is the list str.split("/") gives for it: a   *)
(* name "a" is <<"a">>, the path "/p/q" is <<"", "p", "q">>, the relative  *)
(* path "q/r" is <<"q", "r">> and "" is <<"">>.  split and "/".join are    *)
(* inverse bijections, so f"{x}/{y}" is the concatenation x \o y of the    *)
(* two lists and x.startswith("/") is Len(x) > 1 /\ x[1] = "".             *)
(***************************************************************************)
EXTENDS Integers, Sequences, FiniteSets, TLC

VARIABLES
    \* SystemLoader: the detected version and the last version query
    autosar_version_major, autosar_version_minor, autosar_version_patch,
    ver_query, ver_result,
    \* SystemLoader._load_message: the PDU of one frame and its decomposition
    msg_pdu, msg_state, msg_signals,
    \* SystemLoader._create_arxml_reference_dicts: the document, the pending
    \* add_sub_references calls and the four dictionaries
    idx_doc, idx_stack, idx_maps, idx_state, idx_error,
    \* SystemLoader.load: the document and what the load returned
    load_doc, load_state, load_messages, load_error,
    \* SystemLoader._load_system_signal: the document, whether the signal is
    \* a float, and what the call returned
    tt_doc, tt_is_float, tt_state, tt_result,
    \* EcuExtractLoader.load: the document and what the load returned
    ecu_doc, ecu_state, ecu_messages, ecu_error,
    \* a query of a constructed SystemLoader: the document, the arguments
    \* of the call and what it returned
    qry_doc, qry_call, qry_state, qry_result,
    \* logreader.Parser: the lines of the stream and the number of lines
    \* read, keep_unknowns, self.pattern, the lines parsed so far and what
    \* the last parse returned, the items yielded, and how far the parser
    \* has come
    log_stream, log_read, log_keep_unknowns, log_pattern, log_line,
    log_frame, log_items, log_state

verVars == <<autosar_version_major, autosar_version_minor,
             autosar_version_patch, ver_query, ver_result>>

msgVars == <<msg_pdu, msg_state, msg_signals>>

idxVars == <<idx_doc, idx_stack, idx_maps, idx_state, idx_error>>

loadVars == <<load_doc, load_state, load_messages, load_error>>

ttVars == <<tt_doc, tt_is_float, tt_state, tt_result>>

ecuVars == <<ecu_doc, ecu_state, ecu_messages, ecu_error>>

qryVars == <<qry_doc, qry_call, qry_state, qry_result>>

logVars == <<log_stream, log_read, log_keep_unknowns, log_pattern, log_line,
             log_frame, log_items, log_state>>

vars ==
    <<verVars, msgVars, idxVars, loadVars, ttVars, ecuVars, qryVars, logVars>>

None == <<>>
Some(x) == <<x>>

-----------------------------------------------------------------------------
(* Bounds                                                                  *)

\* largest minor / patch number of a detected or queried version
MaxVersionPart == 2

\* largest start bit of a signal or selector field of a generated PDU
MaxPos == 1

\* largest number of signal mappings of one generated PDU
MaxSigs == 2

\* largest number of dynamic-part alternatives of one generated PDU
MaxAlts == 2

\* largest number of static parts of one generated PDU
MaxStatics == 1

\* largest SELECTOR-FIELD-CODE of a generated alternative
MaxCode == 1

\* largest nesting depth of a generated XML tree (the root has depth 0)
MaxDepth == 2

\* largest number of children of one element of a generated XML tree
MaxKids == 2

\* largest number of reference bases of one generated package
MaxBases == 2

\* largest number of scales of a generated compu method
MaxScales == 2

-----------------------------------------------------------------------------
(* Idle values of each part's variables                                    *)

VerIdle ==
    /\ autosar_version_major = 4
    /\ autosar_version_minor = 0
    /\ autosar_version_patch = 0
    /\ ver_query = None
    /\ ver_result = None

MsgIdle ==
    /\ msg_pdu = None
    /\ msg_state = "idle"
    /\ msg_signals = <<>>

\* the four dictionaries of the reference index, empty
EmptyMaps ==
    [node_to_arxml_path |-> <<>>, arxml_path_to_node |-> <<>>,
     package_default_refbase_path |-> <<>>, package_refbase_paths |-> <<>>]

IdxIdle ==
    /\ idx_doc = None
    /\ idx_stack = <<>>
    /\ idx_maps = EmptyMaps
    /\ idx_state = "idle"
    /\ idx_error = ""

LoadIdle ==
    /\ load_doc = None
    /\ load_state = "idle"
    /\ load_messages = <<>>
    /\ load_error = ""

TtIdle ==
    /\ tt_doc = None
    /\ tt_is_float = FALSE
    /\ tt_state = "idle"
    /\ tt_result = None

EcuIdle ==
    /\ ecu_doc = None
    /\ ecu_state = "idle"
    /\ ecu_messages = <<>>
    /\ ecu_error = ""

QryIdle ==
    /\ qry_doc = None
    /\ qry_call = None
    /\ qry_state = "idle"
    /\ qry_result = None

LogIdle ==
    /\ log_stream = <<>>
    /\ log_read = 0
    /\ log_keep_unknowns = FALSE
    /\ log_pattern = None
    /\ log_line = <<>>
    /\ log_frame = None
    /\ log_items = <<>>
    /\ log_state = "idle"

-----------------------------------------------------------------------------
(* SystemLoader.autosar_version_newer                                      *)

\* a query that looks at the patch although the minor part was omitted
autosar_version_newer_patch_leak(major, minor, patch) ==
    IF autosar_version_major > major THEN TRUE
    ELSE IF autosar_version_major < major THEN FALSE
    ELSE IF minor # None /\ autosar_version_minor > minor[1] THEN TRUE
    ELSE IF minor # None /\ autosar_version_minor < minor[1] THEN FALSE
    ELSE IF patch = None THEN TRUE
    ELSE IF autosar_version_patch > patch[1] THEN TRUE
    ELSE IF autosar_version_patch < patch[1] THEN FALSE
    ELSE TRUE

autosar_version_newer(major, minor, patch) ==
    IF autosar_version_major > major THEN TRUE
    ELSE IF autosar_version_major < major THEN FALSE
    ELSE IF minor = None THEN TRUE
    ELSE IF autosar_version_minor > minor[1] THEN TRUE
    ELSE IF autosar_version_minor < minor[1] THEN FALSE
    ELSE IF patch = None THEN TRUE
    ELSE IF autosar_version_patch > patch[1] THEN TRUE
    ELSE IF autosar_version_patch < patch[1] THEN FALSE
    ELSE TRUE

OptVersionPart == {None} \cup {Some(v) : v \in 0..MaxVersionPart}

\* the constructor accepts major versions 3 and 4 only
VerInit ==
    /\ autosar_version_major \in {3, 4}
    /\ autosar_version_minor \in 0..MaxVersionPart
    /\ autosar_version_patch \in 0..MaxVersionPart
    /\ ver_query = None
    /\ ver_result = None

QueryVersion ==
    \E major \in 2..5, minor \in OptVersionPart, patch \in OptVersionPart :
        /\ ver_query' = Some([major |-> major, minor |-> minor, patch |-> patch])
        /\ ver_result' = Some(autosar_version_newer(major, minor, patch))
        /\ UNCHANGED <<autosar_version_major, autosar_version_minor,
                       autosar_version_patch>>
        /\ UNCHANGED <<msgVars, idxVars, loadVars, ttVars, ecuVars,
                 qryVars, logVars>>

VerNext == QueryVersion

VersionInit ==
    VerInit /\ MsgIdle /\ IdxIdle /\ LoadIdle /\ TtIdle /\ EcuIdle /\ QryIdle
    /\ LogIdle

SpecVersion == VersionInit /\ [][VerNext]_vars

-----------------------------------------------------------------------------
(* Version query properties                                                *)

\* the components a query specifies, up to the first omitted one
QueryPrefix(q) ==
    IF q.minor = None THEN <<q.major>>
    ELSE IF q.patch = None THEN <<q.major, q.minor[1]>>
    ELSE <<q.major, q.minor[1], q.patch[1]>>

DetectedVersion ==
    <<autosar_version_major, autosar_version_minor, autosar_version_patch>>

\* a >= b lexicographically on the first Len(b) components
LexGeq(a, b) ==
    \/ \A i \in 1..Len(b) : a[i] = b[i]
    \/ \E i \in 1..Len(b) : /\ a[i] > b[i]
                            /\ \A j \in 1..(i - 1) : a[j] = b[j]

\* C8: a query with only a major component answers detected.major >= major,
\* and every query compares lexicographically on the components given before
\* the first omitted one (a patch given without a minor is ignored).
C8_VersionQuery ==
    ver_query # None =>
        LET q == ver_query[1] IN
        /\ ver_result[1] = LexGeq(DetectedVersion, QueryPrefix(q))
        /\ q.minor = None => ver_result[1] = (autosar_version_major >= q.major)

\* a major-only query whose patch is given, on a version with the same major
\* and a smaller patch
C8_Witness ==
    /\ ver_query # None
    /\ ver_query[1].minor = None
    /\ ver_query[1].patch # None
    /\ ver_query[1].major = autosar_version_major
    /\ ver_query[1].patch[1] > autosar_version_patch
    /\ ver_result = Some(TRUE)

-----------------------------------------------------------------------------
(* PDU decomposition: SystemLoader._load_pdu and                           *)
(* SystemLoader._load_pdu_multiplexed_parts                                *)
(*                                                                         *)
(* A PDU node is a record of what the code reads from it:                  *)
(*   mux      its tag is MULTIPLEXED-I-PDU                                 *)
(*   sigs     the Signal list _load_pdu_signals builds from its mappings   *)
(*   selector_pos, selector_len   SELECTOR-FIELD-START-POSITION / -LENGTH  *)
(*   dynalts  its DYNAMIC-PART-ALTERNATIVEs: SELECTOR-FIELD-CODE (code),   *)
(*            INITIAL-DYNAMIC-PART = 'true' (initial), the I-PDU (pdu)     *)
(*   statics  the I-PDUs of its STATIC-PARTs                               *)
(* A load either returns or raises; err = "" is a return and any other     *)
(* value names the exception.                                              *)

\* the Signal constructor: the fields the decomposition reads or writes
Signal(name, start, length, choices, is_multiplexer) ==
    [name |-> name, start |-> start, length |-> length, choices |-> choices,
     is_multiplexer |-> is_multiplexer, initial |-> None,
     multiplexer_signal |-> None, multiplexer_ids |-> None]

\* f'{frame_name}_selector{next_selector_idx}'
SelectorName(frame_name, next_selector_idx) ==
    frame_name \o "_selector" \o ToString(next_selector_idx)

\* dict.update
DictUpdate(d, e) ==
    [k \in (DOMAIN d) \cup (DOMAIN e) |-> IF k \in DOMAIN e THEN e[k] ELSE d[k]]

\* the indices of the signals of a list that start at a bit position
StartsAt(signals, pos) == {i \in 1..Len(signals) : signals[i].start = pos}

\* list.remove of the element at index i
RemoveAt(signals, i) ==
    [j \in 1..(Len(signals) - 1) |-> IF j < i THEN signals[j] ELSE signals[j + 1]]

Raised(why) == [err |-> why, next_selector_idx |-> 0, signals |-> <<>>]

Returned(next_selector_idx, signals) ==
    [err |-> "", next_selector_idx |-> next_selector_idx, signals |-> signals]

\* the selector signal synthesized for a multiplexed PDU (lines 355-362)
SelectorSignal(pdu, frame_name, next_selector_idx) ==
    Signal(SelectorName(frame_name, next_selector_idx),
           pdu.selector_pos, pdu.selector_len, Some(<<>>), TRUE)

\* a claim that takes every signal, a sub-multiplexer's ones included
ClaimSignal_overriding(sig, selector_signal, dynalt_selector_value) ==
    [sig EXCEPT !.multiplexer_signal = Some(selector_signal.name),
                !.multiplexer_ids = Some(<<dynalt_selector_value>>)]

\* a claim that passes over the selector of a sub-multiplexer
ClaimSignal_not_selectors(sig, selector_signal, dynalt_selector_value) ==
    IF sig.multiplexer_signal = None /\ ~sig.is_multiplexer
    THEN [sig EXCEPT !.multiplexer_signal = Some(selector_signal.name),
                     !.multiplexer_ids = Some(<<dynalt_selector_value>>)]
    ELSE sig

\* lines 419-424: a signal no sub-multiplexer has claimed is claimed
ClaimSignal(sig, selector_signal, dynalt_selector_value) ==
    IF sig.multiplexer_signal = None
    THEN [sig EXCEPT !.multiplexer_signal = Some(selector_signal.name),
                     !.multiplexer_ids = Some(<<dynalt_selector_value>>)]
    ELSE sig

\* a check of the earlier initial value by truth value: 0 passes for unset
SetInitial_truthy(selector_signal, dynalt) ==
    IF ~dynalt.initial THEN Returned(0, <<selector_signal>>)
    ELSE IF selector_signal.initial # None /\ selector_signal.initial[1] # 0
    THEN Raised("AssertionError")
    ELSE Returned(0, <<[selector_signal EXCEPT !.initial = Some(dynalt.code)]>>)

\* lines 393-401: the INITIAL-DYNAMIC-PART flag of an alternative
SetInitial(selector_signal, dynalt) ==
    IF ~dynalt.initial THEN Returned(0, <<selector_signal>>)
    ELSE IF selector_signal.initial # None THEN Raised("AssertionError")
    ELSE Returned(0, <<[selector_signal EXCEPT !.initial = Some(dynalt.code)]>>)

\* the choices of the last alternative replace the table
MergeChoices_replace(selector_signal, dynalt_selector_signal) ==
    IF dynalt_selector_signal.choices # None
    THEN [selector_signal EXCEPT !.choices = dynalt_selector_signal.choices]
    ELSE selector_signal

\* lines 411-412: the choices of the alternative's copy of the selector
MergeChoices(selector_signal, dynalt_selector_signal) ==
    IF dynalt_selector_signal.choices # None
    THEN [selector_signal EXCEPT
             !.choices = Some(DictUpdate(selector_signal.choices[1],
                                         dynalt_selector_signal.choices[1]))]
    ELSE selector_signal

\* a loop body that takes the first signal at the selector's position for
\* the alternative's copy of the selector, however many there are
LoadDynalt_first(acc, dynalt, loaded) ==
    IF acc.err # "" THEN acc
    ELSE IF loaded.err # "" THEN [acc EXCEPT !.err = loaded.err]
    ELSE
      LET ini == SetInitial(acc.selector_signal, dynalt)
          at == StartsAt(loaded.signals, acc.selector_signal.start)
      IN
      IF ini.err # "" THEN [acc EXCEPT !.err = ini.err]
      ELSE IF at = {} THEN [acc EXCEPT !.err = "AssertionError"]
      ELSE
        LET i == CHOOSE j \in at : \A l \in at : j <= l
            dup == loaded.signals[i]
            dynalt_signals == RemoveAt(loaded.signals, i)
            selector_signal == MergeChoices(ini.signals[1], dup)
        IN
        IF dup.length # acc.selector_signal.length
        THEN [acc EXCEPT !.err = "AssertionError"]
        ELSE [err |-> "",
              next_selector_idx |-> loaded.next_selector_idx,
              selector_signal |-> selector_signal,
              signals |-> acc.signals \o
                  [k \in 1..Len(dynalt_signals) |->
                      ClaimSignal(dynalt_signals[k], selector_signal, dynalt.code)]]

\* The body of the loop over the alternatives (lines 381-426), given what
\* _load_pdu returned for the alternative's PDU.  acc is the loop's state:
\* next_selector_idx, the selector signal and the signals after it.
LoadDynalt(acc, dynalt, loaded) ==
    IF acc.err # "" THEN acc
    ELSE IF loaded.err # "" THEN [acc EXCEPT !.err = loaded.err]
    ELSE
      LET ini == SetInitial(acc.selector_signal, dynalt)
          at == StartsAt(loaded.signals, acc.selector_signal.start)
      IN
      IF ini.err # "" THEN [acc EXCEPT !.err = ini.err]
      ELSE IF Cardinality(at) # 1 THEN [acc EXCEPT !.err = "AssertionError"]
      ELSE
        LET i == CHOOSE j \in at : TRUE
            dup == loaded.signals[i]
            dynalt_signals == RemoveAt(loaded.signals, i)
            selector_signal == MergeChoices(ini.signals[1], dup)
        IN
        IF dup.length # acc.selector_signal.length
        THEN [acc EXCEPT !.err = "AssertionError"]
        ELSE [err |-> "",
              next_selector_idx |-> loaded.next_selector_idx,
              selector_signal |-> selector_signal,
              signals |-> acc.signals \o
                  [k \in 1..Len(dynalt_signals) |->
                      ClaimSignal(dynalt_signals[k], selector_signal, dynalt.code)]]

\* a loop body that claims the untagged signals of a static part for the
\* selector, as the loop over the alternatives does
LoadStatic_claiming(acc, loaded) ==
    IF acc.err # "" THEN acc
    ELSE IF loaded.err # "" THEN [acc EXCEPT !.err = loaded.err]
    ELSE [acc EXCEPT !.next_selector_idx = loaded.next_selector_idx,
                     !.signals = acc.signals \o
                         [k \in 1..Len(loaded.signals) |->
                             ClaimSignal(loaded.signals[k],
                                         acc.selector_signal, 0)]]

\* The body of the loop over the static parts (lines 444-451)
LoadStatic(acc, loaded) ==
    IF acc.err # "" THEN acc
    ELSE IF loaded.err # "" THEN [acc EXCEPT !.err = loaded.err]
    ELSE [acc EXCEPT !.next_selector_idx = loaded.next_selector_idx,
                     !.signals = acc.signals \o loaded.signals]

\* what _load_pdu returns as the selector index (line 330)
ReturnedSelectorIdx(next_selector_idx, parts) == next_selector_idx

RECURSIVE _load_pdu(_, _, _)
RECURSIVE _load_pdu_multiplexed_parts(_, _, _)
RECURSIVE LoadDynalts(_, _, _, _)
RECURSIVE LoadStatics(_, _, _, _)

\* the loop over the alternatives from the k-th on
LoadDynalts(pdu, frame_name, k, acc) ==
    IF k > Len(pdu.dynalts) \/ acc.err # "" THEN acc
    ELSE LoadDynalts(pdu, frame_name, k + 1,
             LoadDynalt(acc, pdu.dynalts[k],
                 _load_pdu(pdu.dynalts[k].pdu, frame_name, acc.next_selector_idx)))

\* the loop over the static parts from the k-th on
LoadStatics(pdu, frame_name, k, acc) ==
    IF k > Len(pdu.statics) \/ acc.err # "" THEN acc
    ELSE LoadStatics(pdu, frame_name, k + 1,
             LoadStatic(acc,
                 _load_pdu(pdu.statics[k], frame_name, acc.next_selector_idx)))

\* returns the signals only: the selector first, then the alternatives'
\* signals, then the static parts' (lines 335-453)
_load_pdu_multiplexed_parts(pdu, frame_name, next_selector_idx) ==
    LET acc0 == [err |-> "",
                 next_selector_idx |-> next_selector_idx + 1,
                 selector_signal |->
                     SelectorSignal(pdu, frame_name, next_selector_idx),
                 signals |-> <<>>]
        acc1 == LoadDynalts(pdu, frame_name, 1, acc0)
        acc2 == LoadStatics(pdu, frame_name, 1, acc1)
    IN IF acc2.err # "" THEN Raised(acc2.err)
       ELSE Returned(acc2.next_selector_idx,
                     <<acc2.selector_signal>> \o acc2.signals)

_load_pdu(pdu, frame_name, next_selector_idx) ==
    IF ~pdu.mux THEN Returned(next_selector_idx, pdu.sigs)
    ELSE
      LET parts == _load_pdu_multiplexed_parts(pdu, frame_name, next_selector_idx)
      IN IF parts.err # "" THEN parts
         ELSE Returned(ReturnedSelectorIdx(next_selector_idx, parts),
                       pdu.sigs \o parts.signals)

-----------------------------------------------------------------------------
(* The PDUs a frame is loaded with                                         *)

SeqsUpTo(S, n) == UNION {[1..k -> S] : k \in 0..n}

\* the text tables a loaded signal may carry: none, one entry, another entry
ChoiceOpts == {None, Some(0 :> "A"), Some(1 :> "B")}

\* signals as _load_signal builds them: no multiplexer fields set
PlainSignals(choiceOpts) ==
    {Signal("s" \o ToString(start), start, length, ch, FALSE) :
        start \in 0..MaxPos, length \in {1}, ch \in choiceOpts}

PlainPdus(sigset) ==
    {[mux |-> FALSE, sigs |-> ss, selector_pos |-> 0, selector_len |-> 0,
      dynalts |-> <<>>, statics |-> <<>>] : ss \in SeqsUpTo(sigset, MaxSigs)}

Dynalts(pdus, inits, n) ==
    SeqsUpTo([code : 0..MaxCode, initial : inits, pdu : pdus], n)

MuxPdus(own, dynalts, statics) ==
    {[mux |-> TRUE, sigs |-> o, selector_pos |-> pos, selector_len |-> 1,
      dynalts |-> a, statics |-> st] :
        o \in own, pos \in 0..MaxPos, a \in dynalts, st \in statics}

\* one level of multiplexing; text tables and initial flags vary
FlatPdus(maxAlts) ==
    MuxPdus({<<>>},
            Dynalts(PlainPdus(PlainSignals(ChoiceOpts)), BOOLEAN, maxAlts),
            {<<>>})

\* plain PDUs whose signals carry no text table
LeafPdus(maxSigs) ==
    {[mux |-> FALSE, sigs |-> ss, selector_pos |-> 0, selector_len |-> 0,
      dynalts |-> <<>>, statics |-> <<>>] :
        ss \in SeqsUpTo(PlainSignals({None}), maxSigs)}

\* the parts of a nested PDU: plain PDUs and multiplexed PDUs of one level
InnerPdus(maxSigs) ==
    LeafPdus(maxSigs) \cup
    MuxPdus(SeqsUpTo(PlainSignals({None}), 1),
            Dynalts(LeafPdus(maxSigs), {FALSE}, 1),
            {<<>>})

\* two levels of multiplexing in the alternatives
NestedDynaltPdus(maxAlts) ==
    MuxPdus({<<>>}, Dynalts(InnerPdus(MaxSigs), {FALSE}, maxAlts), {<<>>})

\* two levels of multiplexing in an alternative and in the static parts
NestedStaticPdus(maxStatics) ==
    MuxPdus({<<>>}, Dynalts(InnerPdus(MaxSigs), {FALSE}, 1),
            SeqsUpTo(InnerPdus(MaxSigs), maxStatics))

FrameName == "F"

-----------------------------------------------------------------------------
(* SystemLoader._load_message: the decomposition of the frame's PDU        *)

MsgInit ==
    /\ msg_pdu = None
    /\ msg_state = "ready"
    /\ msg_signals = <<>>

\* lines 267-271: _load_pdu(pdu, name, 1); an exception ends the load
LoadMessage(pdu) ==
    LET loaded == _load_pdu(pdu, FrameName, 1) IN
    /\ msg_pdu' = Some(pdu)
    /\ IF loaded.err # ""
       THEN msg_state' = "aborted" /\ msg_signals' = <<>>
       ELSE msg_state' = "done" /\ msg_signals' = loaded.signals
    /\ UNCHANGED <<verVars, idxVars, loadVars, ttVars, ecuVars,
                 qryVars, logVars>>

\* a frame whose PDU is not multiplexed
LoadPlainFrame ==
    /\ msg_state = "ready"
    /\ \E pdu \in LeafPdus(MaxSigs) : LoadMessage(pdu)

\* a frame whose PDU is multiplexed once
LoadFlatFrame ==
    /\ msg_state = "ready"
    /\ \E pdu \in FlatPdus(MaxAlts) : LoadMessage(pdu)

\* a frame whose PDU has multiplexed PDUs as alternatives
LoadNestedDynaltFrame ==
    /\ msg_state = "ready"
    /\ \E pdu \in NestedDynaltPdus(MaxAlts) : LoadMessage(pdu)

\* a frame whose PDU has multiplexed PDUs as static parts
LoadNestedStaticFrame ==
    /\ msg_state = "ready"
    /\ \E pdu \in NestedStaticPdus(MaxStatics) : LoadMessage(pdu)

MsgNext ==
    \/ LoadPlainFrame
    \/ LoadFlatFrame
    \/ LoadNestedDynaltFrame
    \/ LoadNestedStaticFrame

MessageInit ==
    MsgInit /\ VerIdle /\ IdxIdle /\ LoadIdle /\ TtIdle /\ EcuIdle /\ QryIdle
    /\ LogIdle

SpecMessage == MessageInit /\ [][MsgNext]_vars

-----------------------------------------------------------------------------
(* Properties of the decomposition of a frame's PDU                        *)

TopPdu == msg_pdu[1]

MuxLoaded == msg_pdu # None /\ msg_state = "done" /\ TopPdu.mux

\* the selector of the frame's PDU follows the PDU's own signals
TopSelector == msg_signals[Len(TopPdu.sigs) + 1]

\* what each alternative's PDU decomposes to, taken by itself
DynaltsLoaded ==
    [k \in 1..Len(TopPdu.dynalts) |->
        _load_pdu(TopPdu.dynalts[k].pdu, FrameName, 2).signals]

\* each alternative's copy of the selector
DynaltDups ==
    LET loaded == DynaltsLoaded IN
    [k \in DOMAIN loaded |->
        loaded[k][CHOOSE i \in StartsAt(loaded[k], TopPdu.selector_pos) : TRUE]]

\* each alternative's signals without its copy of the selector
DynaltsKept ==
    LET loaded == DynaltsLoaded
        NotDup(sig) == sig.start # TopPdu.selector_pos
    IN [k \in DOMAIN loaded |-> SelectSeq(loaded[k], NotDup)]

\* the place in the frame's signal list before the k-th alternative's signals
DynaltOffsets(kept) ==
    LET off[k \in DOMAIN kept] ==
            IF k = 1 THEN Len(TopPdu.sigs) + 1
            ELSE off[k - 1] + Len(kept[k - 1])
    IN off

Selectors == {i \in 1..Len(msg_signals) : msg_signals[i].is_multiplexer}

\* C1: the synthesized selector signals of a frame's flattened signal list
\* have pairwise distinct names.
C1_SelectorNamesDistinct ==
    msg_state = "done" =>
        \A i, j \in Selectors :
            i # j => msg_signals[i].name # msg_signals[j].name

\* C2: every signal of alternative k that is not the removed copy of the
\* selector and that no nested multiplexer had tagged carries this PDU's
\* selector name and the one-element id list [code of alternative k].
C2_DynaltSignalsTagged ==
    MuxLoaded =>
        LET kept == DynaltsKept
            off == DynaltOffsets(kept)
        IN
        \A k \in DOMAIN kept :
            \A i \in 1..Len(kept[k]) :
                LET sig == msg_signals[off[k] + i] IN
                kept[k][i].multiplexer_signal = None =>
                    /\ sig.multiplexer_signal = Some(TopSelector.name)
                    /\ sig.multiplexer_ids = Some(<<TopPdu.dynalts[k].code>>)

\* two alternatives with different codes: one brings an untagged signal,
\* the other one a signal that its own multiplexer has tagged
C2_Witness ==
    /\ MuxLoaded
    /\ TopSelector.name = SelectorName(FrameName, 1)
    /\ LET kept == DynaltsKept IN
       \E k, l \in DOMAIN kept :
         /\ TopPdu.dynalts[k].code # TopPdu.dynalts[l].code
         /\ \E i \in 1..Len(kept[k]) : kept[k][i].multiplexer_signal = None
         /\ \E i \in 1..Len(kept[l]) : kept[l][i].multiplexer_signal # None

\* the alternatives whose copy of the selector carries a text table
WithChoices(dups) == {k \in DOMAIN dups : dups[k].choices # None}

OneSelectorOfTopPdu ==
    /\ TopSelector.is_multiplexer
    /\ TopSelector.name = SelectorName(FrameName, 1)
    /\ \A i \in Selectors :
         msg_signals[i].name = TopSelector.name => i = Len(TopPdu.sigs) + 1

\* C3 as claimed: one selector signal for the PDU, whose choice table has
\* exactly as many entries as the PDU has alternatives.
C3_ChoicesCountIsDynalts ==
    MuxLoaded =>
        /\ OneSelectorOfTopPdu
        /\ TopSelector.choices # None
        /\ Cardinality(DOMAIN TopSelector.choices[1]) = Len(TopPdu.dynalts)

\* C3 amended: one selector signal for the PDU, whose choice table is the
\* union of the text tables of the alternatives' copies of the selector, a
\* later alternative overriding an earlier one on the same raw value; it has
\* as many entries as alternatives when every copy carries exactly one entry
\* and the raw values differ.
C3_ChoicesAreUnion ==
    MuxLoaded =>
        LET table == TopSelector.choices[1]
            dups == DynaltDups
            with == WithChoices(dups)
            Keys(k) == DOMAIN dups[k].choices[1]
            Last(v) == CHOOSE k \in with :
                           /\ v \in Keys(k)
                           /\ \A l \in with : v \in Keys(l) => l <= k
        IN
        /\ OneSelectorOfTopPdu
        /\ TopSelector.choices # None
        /\ DOMAIN table = UNION {Keys(k) : k \in with}
        /\ \A v \in DOMAIN table : table[v] = dups[Last(v)].choices[1][v]
        /\ ( /\ with = 1..Len(TopPdu.dynalts)
             /\ \A k \in with : Cardinality(Keys(k)) = 1
             /\ \A k, l \in with : k # l => Keys(k) # Keys(l) )
           => Cardinality(DOMAIN table) = Len(TopPdu.dynalts)

\* two alternatives whose copies of the selector name two different values
C3_Witness ==
    /\ MuxLoaded
    /\ Len(TopPdu.dynalts) = 2
    /\ WithChoices(DynaltDups) = {1, 2}
    /\ Cardinality(DOMAIN TopSelector.choices[1]) = 2

Flagged == {k \in 1..Len(TopPdu.dynalts) : TopPdu.dynalts[k].initial}

\* C4: the selector's initial value is set, to the code of the flagged
\* alternative, exactly when one alternative is flagged initial; with two
\* flagged alternatives the load aborts, whatever the first one's code is.
C4_InitialIffOneFlagged ==
    /\ MuxLoaded =>
         /\ TopSelector.initial # None <=> Cardinality(Flagged) = 1
         /\ \A k \in Flagged :
              TopSelector.initial = Some(TopPdu.dynalts[k].code)
    /\ (msg_pdu # None /\ TopPdu.mux /\ Cardinality(Flagged) >= 2)
         => msg_state = "aborted"

\* two flagged alternatives, the first with code 0, each with its one copy
\* of the selector: only the second flag aborts the load
C4_Witness ==
    /\ msg_pdu # None
    /\ TopPdu.mux
    /\ msg_state = "aborted"
    /\ Flagged = {1, 2}
    /\ TopPdu.dynalts[1].code = 0
    /\ \A k \in 1..2 :
         /\ ~TopPdu.dynalts[k].pdu.mux
         /\ Cardinality(StartsAt(TopPdu.dynalts[k].pdu.sigs,
                                 TopPdu.selector_pos)) = 1

-----------------------------------------------------------------------------
(* The XML document                                                        *)
(*                                                                         *)
(* An element is a record of its tag (without the namespace), its text,    *)
(* its DEST and BASE attributes and the list of its children.  An element  *)
(* is identified by its position: the child indices leading to it from the *)
(* root, <<>> being the root.                                              *)

Element(tag, text, kids) ==
    [tag |-> tag, text |-> text, dest |-> None, base |-> None, kids |-> kids]

Leaf(tag, text) == Element(tag, Some(text), <<>>)

Reference(tag, text, dest, base) ==
    [tag |-> tag, text |-> Some(text), dest |-> dest, base |-> base,
     kids |-> <<>>]

RECURSIVE NodeAt(_, _)
NodeAt(doc, pos) ==
    IF pos = <<>> THEN doc ELSE NodeAt(doc.kids[Head(pos)], Tail(pos))

\* "for child in elem": the positions of the children, in document order
ChildrenOf(doc, pos) ==
    [i \in 1..Len(NodeAt(doc, pos).kids) |-> Append(pos, i)]

\* elem.find('ns:TAG'): the first child with that tag, or None
Find(doc, pos, tag) ==
    LET kids == NodeAt(doc, pos).kids
        hits == {i \in 1..Len(kids) : kids[i].tag = tag}
    IN  IF hits = {} THEN None
        ELSE Some(Append(pos, CHOOSE i \in hits : \A j \in hits : i <= j))

\* the text of the first child with that tag; None without such a child
FindText(doc, pos, tag) ==
    LET found == Find(doc, pos, tag)
    IN  IF found = None THEN None ELSE NodeAt(doc, found[1]).text

\* f"{text}" of an element's text: the text, "None" for an empty element
Str(text) == IF text = None THEN <<"None">> ELSE text[1]

\* text.strip().lower() of the texts that occur in the documents
Lower(text) ==
    IF text \in {<<"TRUE">>, <<"True">>} THEN <<"true">>
    ELSE IF text \in {<<"FALSE">>, <<"False">>} THEN <<"false">>
    ELSE text

\* d[k] = v and d.get(k) of a dict
DictSet(d, k, v) == [x \in DOMAIN d \cup {k} |-> IF x = k THEN v ELSE d[x]]
DictGet(d, k) == IF k \in DOMAIN d THEN Some(d[k]) ELSE None

-----------------------------------------------------------------------------
(* SystemLoader._create_arxml_reference_dicts                              *)

\* the first call: add_sub_references(self._root, '')
RootCall == [elem |-> <<>>, elem_path |-> <<"">>, cur_package_path |-> <<"">>]

Indexed(maps, elem_path, cur_package_path) ==
    [err |-> "", maps |-> maps, elem_path |-> elem_path,
     cur_package_path |-> cur_package_path]

IndexError(why, maps) ==
    [err |-> why, maps |-> maps, elem_path |-> <<"">>,
     cur_package_path |-> <<"">>]

\* f'{elem_path}/{short_name}'
NamedPath(elem_path, short_name) == elem_path \o Str(short_name)

\* a registration that forgets the path of the element
RecordNodePath_skip(node_to_arxml_path, elem, elem_path) == node_to_arxml_path

\* self._node_to_arxml_path[elem] = elem_path
RecordNodePath(node_to_arxml_path, elem, elem_path) ==
    DictSet(node_to_arxml_path, elem, elem_path)

\* a check that lets every path through
PathTaken_never(arxml_path_to_node, elem_path) == FALSE

\* elem_path in self._arxml_path_to_node
PathTaken(arxml_path_to_node, elem_path) ==
    elem_path \in DOMAIN arxml_path_to_node

\* the dictionaries after lines 1145 and 1148: the path of a named element
\* leads to it, and every element has its path recorded
Recorded(maps, named, elem, elem_path) ==
    [maps EXCEPT !.arxml_path_to_node =
                     IF named THEN DictSet(@, elem_path, elem) ELSE @,
                 !.node_to_arxml_path = RecordNodePath(@, elem, elem_path)]

\* self._package_default_refbase_path[cur_package_path] = refbase_path
WithDefault(maps, is_default, cur_package_path, refbase_path) ==
    IF is_default
    THEN [maps EXCEPT !.package_default_refbase_path =
                          DictSet(@, cur_package_path, refbase_path[1])]
    ELSE maps

\* self._package_refbase_paths.get(cur_package_path, {})
NamedBases(maps, cur_package_path) ==
    IF cur_package_path \in DOMAIN maps.package_refbase_paths
    THEN maps.package_refbase_paths[cur_package_path] ELSE <<>>

\* self._package_refbase_paths[cur_package_path][refbase_name] = refbase_path
WithNamedBase(maps, cur_package_path, refbase_name, refbase_path) ==
    [maps EXCEPT !.package_refbase_paths =
        DictSet(@, cur_package_path,
                DictSet(NamedBases(maps, cur_package_path),
                        refbase_name[1], refbase_path[1]))]

\* flag is not None and flag.text.strip().lower() == "true"
IsTrue(flag, text) == flag # None /\ Lower(text[1]) = <<"true">>

\* a REFERENCE-BASE branch without the three checks: a later declaration
\* replaces an earlier one
AddReferenceBase_overwriting(maps, elem_path, cur_package_path, refbase_name, refbase_path, default_elem, default_text, global_elem, global_text) ==
    IF refbase_name = None \/ refbase_path = None
       \/ (default_elem # None /\ default_text = None)
    THEN IndexError("AttributeError", maps)
    ELSE Indexed(WithNamedBase(
                    WithDefault(maps, IsTrue(default_elem, default_text),
                                cur_package_path, refbase_path),
                    cur_package_path, refbase_name, refbase_path),
                 elem_path, cur_package_path)

\* the REFERENCE-BASE branch of add_sub_references, given what the find
\* calls returned
AddReferenceBase(maps, elem_path, cur_package_path, refbase_name, refbase_path, default_elem, default_text, global_elem, global_text) ==
    IF refbase_name = None \/ refbase_path = None
       \/ (default_elem # None /\ default_text = None)
    THEN IndexError("AttributeError", maps)
    ELSE IF /\ IsTrue(default_elem, default_text)
            /\ cur_package_path \in DOMAIN maps.package_default_refbase_path
    THEN IndexError("multiple default reference bases", maps)
    ELSE IF global_elem # None /\ global_text = None
    THEN IndexError("AttributeError",
                    WithDefault(maps, IsTrue(default_elem, default_text),
                                cur_package_path, refbase_path))
    ELSE IF IsTrue(global_elem, global_text)
    THEN IndexError("global reference base",
                    WithDefault(maps, IsTrue(default_elem, default_text),
                                cur_package_path, refbase_path))
    ELSE IF refbase_name[1] \in DOMAIN NamedBases(maps, cur_package_path)
    THEN IndexError("multiple reference bases of one name",
                    WithDefault(maps, IsTrue(default_elem, default_text),
                                cur_package_path, refbase_path))
    ELSE Indexed(WithNamedBase(
                    WithDefault(maps, IsTrue(default_elem, default_text),
                                cur_package_path, refbase_path),
                    cur_package_path, refbase_name, refbase_path),
                 elem_path, cur_package_path)

RegisterReferenceBase(doc, maps, elem, elem_path, cur_package_path) ==
    AddReferenceBase(maps, elem_path, cur_package_path,
                     FindText(doc, elem, "SHORT-LABEL"),
                     FindText(doc, elem, "PACKAGE-REF"),
                     Find(doc, elem, "IS-DEFAULT"),
                     FindText(doc, elem, "IS-DEFAULT"),
                     Find(doc, elem, "IS-GLOBAL"),
                     FindText(doc, elem, "IS-GLOBAL"))

\* add_sub_references from the duplicate check on, given the path of the
\* element and of its package
RegisterPath(doc, maps, elem, tag, named, elem_path, cur_package_path) ==
    IF named /\ PathTaken(maps.arxml_path_to_node, elem_path)
    THEN IndexError("multiple elements with one path", maps)
    ELSE IF tag # "REFERENCE-BASE"
    THEN Indexed(Recorded(maps, named, elem, elem_path), elem_path,
                 cur_package_path)
    ELSE RegisterReferenceBase(doc, Recorded(maps, named, elem, elem_path),
                               elem, elem_path, cur_package_path)

\* add_sub_references, given the element's tag and its SHORT-NAME
RegisterNamed(doc, maps, call, tag, named, short_name) ==
    RegisterPath(doc, maps, call.elem, tag, named,
                 IF named THEN NamedPath(call.elem_path, short_name)
                 ELSE call.elem_path,
                 IF tag = "AR-PACKAGE"
                 THEN call.cur_package_path \o Str(short_name)
                 ELSE call.cur_package_path)

\* the body of one add_sub_references call, up to the loop over the children
RegisterElement(doc, maps, call) ==
    RegisterNamed(doc, maps, call, NodeAt(doc, call.elem).tag,
                  Find(doc, call.elem, "SHORT-NAME") # None,
                  FindText(doc, call.elem, "SHORT-NAME"))

\* the calls for the children of an element, in document order
ChildCalls(kids, done) ==
    [i \in 1..Len(kids) |->
        [elem |-> kids[i], elem_path |-> done.elem_path,
         cur_package_path |-> done.cur_package_path]]

Stepped(done, kids, pending) ==
    [err |-> done.err, maps |-> done.maps,
     stack |-> IF done.err # "" THEN <<>>
               ELSE ChildCalls(kids, done) \o pending]

\* one add_sub_references call: the element is registered and the calls for
\* its children come before the calls that were pending
IndexStep(doc, stack, maps) ==
    Stepped(RegisterElement(doc, maps, Head(stack)),
            ChildrenOf(doc, Head(stack).elem), Tail(stack))

\* the next n add_sub_references calls of the build, or those up to its end
\* or its first error; the calls are taken half by half, which keeps the
\* evaluation shallow
RECURSIVE IndexSteps(_, _, _)
RECURSIVE IndexStepsAfter(_, _, _)
IndexSteps(doc, step, n) ==
    IF step.err # "" \/ step.stack = <<>> THEN step
    ELSE IF n = 1 THEN IndexStep(doc, step.stack, step.maps)
    ELSE IndexStepsAfter(doc, IndexSteps(doc, step, n \div 2), n - n \div 2)

IndexStepsAfter(doc, step, n) == IndexSteps(doc, step, n)

\* every add_sub_references call of the build, up to the first error
RECURSIVE IndexRun(_, _, _)
IndexRun(doc, step, n) ==
    IF step.err # "" \/ step.stack = <<>>
    THEN [err |-> step.err, maps |-> step.maps]
    ELSE IndexRun(doc, IndexSteps(doc, step, n), 2 * n)

_create_arxml_reference_dicts(doc) ==
    IndexRun(doc, [err |-> "", maps |-> EmptyMaps, stack |-> <<RootCall>>], 1)

-----------------------------------------------------------------------------
(* Documents for the reference index                                       *)

\* SHORT-NAME elements; the last one is the empty element <SHORT-NAME/>
ShortNames ==
    {Element("SHORT-NAME", text, <<>>) :
        text \in {Some(<<"a">>), Some(<<"b">>), None}}

\* every tree of at most the given depth whose elements have at most maxKids
\* children
RECURSIVE Trees(_, _)
Trees(depth, maxKids) ==
    ShortNames \cup
    {Element(tag, None, kids) :
        tag \in {"AR-PACKAGE", "I-SIGNAL"},
        kids \in IF depth = 0 THEN {<<>>}
                 ELSE SeqsUpTo(Trees(depth - 1, maxKids), maxKids)}

TreeDocuments(depth, maxKids) ==
    {Element("AUTOSAR", None, kids) :
        kids \in SeqsUpTo(Trees(depth - 1, maxKids), maxKids)}

\* REFERENCE-BASE elements of a package, all pointing at the package /p
ReferenceBases ==
    {Element("REFERENCE-BASE", None,
             <<Leaf("SHORT-LABEL", label)>> \o default \o global
             \o <<Leaf("PACKAGE-REF", <<"", "p">>)>>) :
        label \in {<<"x">>, <<"y">>},
        default \in {<<>>, <<Leaf("IS-DEFAULT", <<"true">>)>>,
                     <<Leaf("IS-DEFAULT", <<"FALSE">>)>>},
        global \in {<<>>, <<Leaf("IS-GLOBAL", <<"True">>)>>}}

Package(name, bases, elements, packages) ==
    Element("AR-PACKAGE", None,
            <<Leaf("SHORT-NAME", name),
              Element("REFERENCE-BASES", None, bases),
              Element("ELEMENTS", None, elements),
              Element("AR-PACKAGES", None, packages)>>)

\* a package /p with reference bases and at most one sub-package /p/q with
\* at most one reference base
PackageDocuments(maxBases) ==
    {Element("AUTOSAR", None,
             <<Element("AR-PACKAGES", None,
                       <<Package(<<"p">>, bases, <<>>, packages)>>)>>) :
        bases \in SeqsUpTo(ReferenceBases, maxBases),
        packages \in {<<>>} \cup
                     {<<Package(<<"q">>, inner, <<>>, <<>>)>> :
                         inner \in SeqsUpTo(ReferenceBases, 1)}}

-----------------------------------------------------------------------------
(* The construction of the reference index, one add_sub_references call at *)
(* a time                                                                  *)

IdxInit ==
    /\ idx_doc = None
    /\ idx_stack = <<>>
    /\ idx_maps = EmptyMaps
    /\ idx_state = "ready"
    /\ idx_error = ""

\* _create_arxml_reference_dicts up to the first add_sub_references call
StartIndex(doc) ==
    /\ idx_doc' = Some(doc)
    /\ idx_stack' = <<RootCall>>
    /\ idx_maps' = EmptyMaps
    /\ idx_state' = "building"
    /\ idx_error' = ""
    /\ UNCHANGED <<verVars, msgVars, loadVars, ttVars, ecuVars,
                 qryVars, logVars>>

IndexTreeDocument ==
    /\ idx_state = "ready"
    /\ \E doc \in TreeDocuments(MaxDepth, MaxKids) : StartIndex(doc)

IndexPackageDocument ==
    /\ idx_state = "ready"
    /\ \E doc \in PackageDocuments(MaxBases) : StartIndex(doc)

\* one call of add_sub_references; the build has finished when none is left
AddSubReferences ==
    /\ idx_state = "building"
    /\ LET step == IndexStep(idx_doc[1], idx_stack, idx_maps)
       IN  /\ idx_maps' = step.maps
           /\ idx_stack' = step.stack
           /\ idx_error' = step.err
           /\ idx_state' = IF step.err # "" THEN "error"
                           ELSE IF step.stack = <<>> THEN "built"
                           ELSE "building"
    /\ UNCHANGED <<idx_doc, verVars, msgVars, loadVars, ttVars, ecuVars,
                 qryVars, logVars>>

IdxNext == IndexTreeDocument \/ IndexPackageDocument \/ AddSubReferences

IndexInit ==
    IdxInit /\ VerIdle /\ MsgIdle /\ LoadIdle /\ TtIdle /\ EcuIdle /\ QryIdle
    /\ LogIdle

SpecIndex == IndexInit /\ [][IdxNext]_vars

-----------------------------------------------------------------------------
(* Properties of the reference index                                       *)

RECURSIVE PositionsFrom(_, _)
PositionsFrom(doc, pos) ==
    {pos} \cup UNION {PositionsFrom(doc, Append(pos, i)) :
                         i \in 1..Len(NodeAt(doc, pos).kids)}

\* every element of the document
Positions(doc) == PositionsFrom(doc, <<>>)

HasShortName(doc, pos) == Find(doc, pos, "SHORT-NAME") # None

Parent(pos) == SubSeq(pos, 1, Len(pos) - 1)

\* the reference path of an element as the document gives it: the short
\* names of the element and of its ancestors, from the root down
RECURSIVE DocPath(_, _)
DocPath(doc, pos) ==
    (IF pos = <<>> THEN <<"">> ELSE DocPath(doc, Parent(pos)))
    \o (IF HasShortName(doc, pos)
        THEN Str(FindText(doc, pos, "SHORT-NAME")) ELSE <<>>)

\* two elements of the document resolve to the same reference path
HasDuplicatePath(doc) ==
    \E n, m \in Positions(doc) :
        /\ n # m
        /\ HasShortName(doc, n) /\ HasShortName(doc, m)
        /\ DocPath(doc, n) = DocPath(doc, m)

PathsRoundTrip(path_to_node, node_to_path) ==
    \A p \in DOMAIN path_to_node :
        /\ path_to_node[p] \in DOMAIN node_to_path
        /\ node_to_path[path_to_node[p]] = p

NodesRoundTrip(nodes, path_to_node, node_to_path) ==
    \A n \in nodes :
        /\ node_to_path[n] \in DOMAIN path_to_node
        /\ path_to_node[node_to_path[n]] = n

\* C6, as claimed: once the index is built, every registered path leads to a
\* node whose recorded path is that path, and every node with a recorded
\* path is the node its path leads to.
C6_MapsMutualInverses ==
    idx_state = "built" =>
        /\ PathsRoundTrip(idx_maps.arxml_path_to_node,
                          idx_maps.node_to_arxml_path)
        /\ NodesRoundTrip(DOMAIN idx_maps.node_to_arxml_path,
                          idx_maps.arxml_path_to_node,
                          idx_maps.node_to_arxml_path)

\* C6, amended: once the index is built, every element of the document has
\* a recorded path; every registered path leads to a node whose recorded
\* path is that path; every element with a SHORT-NAME is the node its
\* recorded path leads to; an element without a SHORT-NAME records the path
\* of its parent ('' for the root) and no registered path leads to it.
C6_NamedMapsMutualInverses ==
    idx_state = "built" =>
        /\ DOMAIN idx_maps.node_to_arxml_path = Positions(idx_doc[1])
        /\ PathsRoundTrip(idx_maps.arxml_path_to_node,
                          idx_maps.node_to_arxml_path)
        /\ NodesRoundTrip({n \in Positions(idx_doc[1]) :
                              HasShortName(idx_doc[1], n)},
                          idx_maps.arxml_path_to_node,
                          idx_maps.node_to_arxml_path)
        /\ \A n \in Positions(idx_doc[1]) :
              ~HasShortName(idx_doc[1], n) =>
                  /\ idx_maps.node_to_arxml_path[n] =
                        IF n = <<>> THEN <<"">>
                        ELSE idx_maps.node_to_arxml_path[Parent(n)]
                  /\ \A p \in DOMAIN idx_maps.arxml_path_to_node :
                        idx_maps.arxml_path_to_node[p] # n

\* a built index with two registered paths and an element without a
\* SHORT-NAME inside a named element
C6_Witness ==
    /\ idx_state = "built"
    /\ Cardinality(DOMAIN idx_maps.arxml_path_to_node) >= 2
    /\ \E n \in Positions(idx_doc[1]) :
          /\ ~HasShortName(idx_doc[1], n)
          /\ NodeAt(idx_doc[1], n).tag # "SHORT-NAME"
          /\ idx_maps.node_to_arxml_path[n] \in
                DOMAIN idx_maps.arxml_path_to_node

\* C7: a document in which two elements resolve to the same reference path
\* is never indexed to the end: the build stops with the duplicate-path
\* error (or, in a document with reference bases, an earlier error), and no
\* add_sub_references call changes or removes a registered path.
C7_DuplicatePathFails ==
    /\ [](idx_state = "built" => ~HasDuplicatePath(idx_doc[1]))
    /\ [](idx_state = "building" => idx_stack # <<>>)
    /\ [](idx_state = "error" /\ HasDuplicatePath(idx_doc[1])
            /\ (\A n \in Positions(idx_doc[1]) :
                   NodeAt(idx_doc[1], n).tag # "REFERENCE-BASE")
          => idx_error = "multiple elements with one path")
    /\ [][\A p \in DOMAIN idx_maps.arxml_path_to_node :
            /\ p \in DOMAIN idx_maps'.arxml_path_to_node
            /\ idx_maps'.arxml_path_to_node[p] =
                  idx_maps.arxml_path_to_node[p]]_vars

\* a build that has stopped at the second element of a path, the first one
\* still registered
C7_Witness ==
    /\ idx_state = "error"
    /\ idx_error = "multiple elements with one path"
    /\ HasDuplicatePath(idx_doc[1])
    /\ idx_maps.arxml_path_to_node # <<>>

-----------------------------------------------------------------------------
(* SystemLoader._follow_arxml_reference                                    *)
(*                                                                         *)
(* An operation that may raise returns a record: err is "" and val is the  *)
(* returned value, or err names the exception.                             *)

Ok(val) == [err |-> "", val |-> val]
Fail(why) == [err |-> why, val |-> None]

\* arxml_path.startswith("/")
IsAbsolute(arxml_path) == Len(arxml_path) > 1 /\ arxml_path[1] = ""

\* the reference base a package declares for a reference: the one of the
\* given name, the default one when the reference names none
BaseOf(maps, test_path, refbase_name) ==
    IF refbase_name = None
    THEN DictGet(maps.package_default_refbase_path, test_path)
    ELSE DictGet(NamedBases(maps, test_path), refbase_name[1])

\* a prefix of the base path is skipped when it leads to an element that is
\* not a package
MayDeclareBase(doc, maps, test_path) ==
    \/ test_path \notin DOMAIN maps.arxml_path_to_node
    \/ NodeAt(doc, maps.arxml_path_to_node[test_path]).tag = "AR-PACKAGE"

\* a loop over the prefixes of the base path that starts at the shortest one
ClosestBase_outermost(doc, maps, base_path, i, refbase_name) ==
    LET hits == {k \in 1..i :
                    /\ MayDeclareBase(doc, maps, SubSeq(base_path, 1, k))
                    /\ BaseOf(maps, SubSeq(base_path, 1, k), refbase_name)
                          # None}
    IN  IF hits = {} THEN None
        ELSE BaseOf(maps,
                    SubSeq(base_path, 1,
                           CHOOSE k \in hits : \A j \in hits : k <= j),
                    refbase_name)

\* the loop over the prefixes of the base path, longest first
RECURSIVE ClosestBase(_, _, _, _, _)
ClosestBase(doc, maps, base_path, i, refbase_name) ==
    IF i = 0 THEN None
    ELSE IF /\ MayDeclareBase(doc, maps, SubSeq(base_path, 1, i))
            /\ BaseOf(maps, SubSeq(base_path, 1, i), refbase_name) # None
    THEN BaseOf(maps, SubSeq(base_path, 1, i), refbase_name)
    ELSE ClosestBase(doc, maps, base_path, i - 1, refbase_name)

\* a lookup that ignores the DEST attribute
Resolved_any_tag(doc, maps, arxml_path, dest_tag_name) ==
    DictGet(maps.arxml_path_to_node, arxml_path)

\* the lookup of an absolute path and the check of the DEST attribute
Resolved(doc, maps, arxml_path, dest_tag_name) ==
    IF arxml_path \notin DOMAIN maps.arxml_path_to_node THEN None
    ELSE IF /\ dest_tag_name # None
            /\ NodeAt(doc, maps.arxml_path_to_node[arxml_path]).tag
                  # dest_tag_name[1]
    THEN None
    ELSE Some(maps.arxml_path_to_node[arxml_path])

FollowRelative(doc, maps, arxml_path, dest_tag_name, refbase_path) ==
    IF refbase_path = None THEN Fail("unknown reference base")
    ELSE Ok(Resolved(doc, maps, refbase_path[1] \o arxml_path, dest_tag_name))

_follow_arxml_reference(doc, maps, base_elem, arxml_path, dest_tag_name, refbase_name) ==
    IF IsAbsolute(arxml_path)
    THEN Ok(Resolved(doc, maps, arxml_path, dest_tag_name))
    ELSE FollowRelative(doc, maps, arxml_path, dest_tag_name,
                        ClosestBase(doc, maps,
                                    maps.node_to_arxml_path[base_elem],
                                    Len(maps.node_to_arxml_path[base_elem]),
                                    refbase_name))

-----------------------------------------------------------------------------
(* SystemLoader._get_arxml_children and _get_unique_arxml_child            *)

\* an atom of a location: its leading qualifier characters and its tag
Atom(flags, tag) == [flags |-> flags, tag |-> tag]

\* the atom as the string the caller writes: its characters, the tag as one
AtomChars(atom) == atom.flags \o <<atom.tag>>

\* child_tag_name[:2]
FirstTwo(chars) == SubSeq(chars, 1, IF Len(chars) < 2 THEN Len(chars) ELSE 2)

\* '&' in child_tag_name[:2]
AllowReferences(atom) ==
    \E i \in DOMAIN FirstTwo(AtomChars(atom)) :
        FirstTwo(AtomChars(atom))[i] = "&"

\* a test of the first character only
IsNodeset_leading(atom) == AtomChars(atom)[1] = "*"
One(tag) == Atom(<<>>, tag)
OneRef(tag) == Atom(<<"&">>, tag)
Many(tag) == Atom(<<"*">>, tag)
ManyRef(tag) == Atom(<<"*", "&">>, tag)

\* '*' in child_tag_name[:2]
IsNodeset(atom) ==
    \E i \in DOMAIN FirstTwo(AtomChars(atom)) :
        FirstTwo(AtomChars(atom))[i] = "*"

RECURSIVE Concatenated(_)
Concatenated(chars) ==
    IF chars = <<>> THEN "" ELSE Head(chars) \o Concatenated(Tail(chars))

\* child_tag_name[1:], once for each of the two qualifiers that is present
ChildTagName(atom) ==
    Concatenated(SubSeq(AtomChars(atom),
                        1 + (IF AllowReferences(atom) THEN 1 ELSE 0)
                          + (IF IsNodeset(atom) THEN 1 ELSE 0),
                        Len(AtomChars(atom))))

\* what resolving the reference of a <tag>-REF child adds to the result
Referenced(followed) ==
    IF followed.err # "" THEN followed
    ELSE IF followed.val = None THEN Fail("dangling reference")
    ELSE Ok(<<followed.val[1]>>)

\* one iteration of the loop over the children of a base element
ChildMatch(doc, maps, base_elem, child, child_pos, tag) ==
    IF child.tag = tag THEN Ok(<<child_pos>>)
    ELSE IF child.tag # tag \o "-REF" THEN Ok(<<>>)
    ELSE IF child.text = None THEN Fail("AttributeError")
    ELSE Referenced(_follow_arxml_reference(doc, maps, base_elem,
                                            child.text[1], child.dest,
                                            child.base))

\* result.extend(more), unless collecting more raised
Extended(result, more) ==
    IF more.err # "" THEN more ELSE Ok(result.val \o more.val)

\* the loop over the children of one base element, from child i on
RECURSIVE LocalResult(_, _, _, _, _, _)
LocalResult(doc, maps, base_elem, i, tag, local_result) ==
    IF local_result.err # "" \/ i > Len(NodeAt(doc, base_elem).kids)
    THEN local_result
    ELSE LocalResult(doc, maps, base_elem, i + 1, tag,
                     Extended(local_result,
                              ChildMatch(doc, maps, base_elem,
                                         NodeAt(doc, base_elem).kids[i],
                                         Append(base_elem, i), tag)))

\* "if not is_nodeset and len(local_result) > 1: raise"
UniqueUnlessNodeset(atom, local_result) ==
    IF /\ local_result.err = ""
       /\ ~IsNodeset(atom)
       /\ Len(local_result.val) > 1
    THEN Fail("non-unique child node")
    ELSE local_result

\* the loop over the base elements for one atom, from base element i on
RECURSIVE AtomResult(_, _, _, _, _, _)
AtomResult(doc, maps, base_elems, i, atom, result) ==
    IF result.err # "" \/ i > Len(base_elems) THEN result
    ELSE AtomResult(doc, maps, base_elems, i + 1, atom,
                    Extended(result,
                             UniqueUnlessNodeset(atom,
                                 LocalResult(doc, maps, base_elems[i], 1,
                                             ChildTagName(atom),
                                             Ok(<<>>)))))

\* the loop over the atoms of the location
RECURSIVE Descend(_, _, _, _)
Descend(doc, maps, base_elems, children_location) ==
    IF base_elems.err # "" \/ children_location = <<>> THEN base_elems
    ELSE IF base_elems.val = <<>> THEN Ok(<<>>)
    ELSE Descend(doc, maps,
                 AtomResult(doc, maps, base_elems.val, 1,
                            Head(children_location), Ok(<<>>)),
                 Tail(children_location))

\* base_elems is one element, or None
_get_arxml_children(doc, maps, base_elems, children_location) ==
    IF base_elems = None THEN Fail("child of a non-existing node")
    ELSE Descend(doc, maps, Ok(<<base_elems[1]>>), children_location)

\* the node of a result list: None, the only one, or an error
Unique(tmp) ==
    IF tmp.err # "" THEN tmp
    ELSE IF Len(tmp.val) = 0 THEN Ok(None)
    ELSE IF Len(tmp.val) = 1 THEN Ok(Some(tmp.val[1]))
    ELSE Fail("not a unique node")

_get_unique_arxml_child(doc, maps, base_elem, child_location) ==
    Unique(_get_arxml_children(doc, maps, base_elem, child_location))

-----------------------------------------------------------------------------
(* parse_int_string                                                        *)
(*                                                                         *)
(* The text of an element that holds a number is the list of its           *)
(* characters.                                                             *)

\* the value of a character as a digit; 99 for a character that is none
DigitValue(c) ==
    CASE c = "0" -> 0 [] c = "1" -> 1 [] c = "2" -> 2 [] c = "3" -> 3
      [] c = "4" -> 4 [] c = "5" -> 5 [] c = "6" -> 6 [] c = "7" -> 7
      [] c = "8" -> 8 [] c = "9" -> 9
      [] c \in {"a", "A"} -> 10 [] c \in {"b", "B"} -> 11
      [] c \in {"c", "C"} -> 12 [] c \in {"d", "D"} -> 13
      [] c \in {"e", "E"} -> 14 [] c \in {"f", "F"} -> 15
      [] OTHER -> 99

\* str.strip() for the blank
RECURSIVE LStrip(_)
LStrip(s) == IF s # <<>> /\ Head(s) = " " THEN LStrip(Tail(s)) ELSE s

RECURSIVE RStrip(_)
RStrip(s) ==
    IF s # <<>> /\ s[Len(s)] = " " THEN RStrip(SubSeq(s, 1, Len(s) - 1))
    ELSE s

Strip(s) == RStrip(LStrip(s))

RECURSIVE Accumulate(_, _, _)
Accumulate(digits, base, acc) ==
    IF digits = <<>> THEN acc
    ELSE Accumulate(Tail(digits), base, acc * base + DigitValue(Head(digits)))

\* the digits of a number in a base: at least one, each below the base
Magnitude(digits, base) ==
    IF digits = <<>> \/ \E i \in 1..Len(digits) : DigitValue(digits[i]) >= base
    THEN Fail("ValueError")
    ELSE Ok(Accumulate(digits, base, 0))

HasPrefix(s, letters) == Len(s) >= 2 /\ s[1] = "0" /\ s[2] \in letters

\* int(s, base) of an unsigned literal, base being 0 or 8: a 0x, 0o or 0b
\* prefix selects the base when the base allows it; without a prefix base 0
\* reads a decimal number, which has no leading zero unless it is zero
Unsigned(s, base) ==
    IF base = 0 /\ HasPrefix(s, {"x", "X"}) THEN Magnitude(Tail(Tail(s)), 16)
    ELSE IF HasPrefix(s, {"o", "O"}) THEN Magnitude(Tail(Tail(s)), 8)
    ELSE IF base = 0 /\ HasPrefix(s, {"b", "B"}) THEN Magnitude(Tail(Tail(s)), 2)
    ELSE IF base = 8 THEN Magnitude(s, 8)
    ELSE IF Len(s) > 1 /\ s[1] = "0" /\ (\E i \in 1..Len(s) : s[i] # "0")
    THEN Fail("ValueError")
    ELSE Magnitude(s, 10)

Negated(number) ==
    IF number.err # "" THEN number ELSE Ok(0 - number.val)

\* int(s, base) of a stripped string
PyInt(s, base) ==
    IF s # <<>> /\ s[1] = "-" THEN Negated(Unsigned(Tail(s), base))
    ELSE IF s # <<>> /\ s[1] = "+" THEN Unsigned(Tail(s), base)
    ELSE Unsigned(s, base)

\* a variant that leaves the octal reading to int(s, 0)
LeadingZeroIsOctal_never(s) == FALSE

\* in_string[0] == '0' and in_string[1:2].isdigit()
LeadingZeroIsOctal(s) == Len(s) >= 2 /\ s[1] = "0" /\ DigitValue(s[2]) <= 9

ParseStripped(s) ==
    IF s = <<>> THEN Ok(0)
    ELSE IF LeadingZeroIsOctal(s) THEN PyInt(s, 8)
    ELSE PyInt(s, 0)

parse_int_string(in_string) == ParseStripped(Strip(in_string))

\* parse_int_string(elem.text) of an element a query has returned
ParsedText(doc, found) ==
    IF found.err # "" THEN found
    ELSE IF found.val = None THEN Fail("AttributeError")
    ELSE IF NodeAt(doc, found.val[1]).text = None THEN Fail("AttributeError")
    ELSE parse_int_string(NodeAt(doc, found.val[1]).text[1])

\* elem.text of an element a query has returned
TextOf(doc, found) ==
    IF found.err # "" THEN found
    ELSE IF found.val = None THEN Fail("AttributeError")
    ELSE Ok(NodeAt(doc, found.val[1]).text)

-----------------------------------------------------------------------------
(* SystemLoader._load_texttable and _load_system_signal                    *)

RECURSIVE FirstError(_)
FirstError(results) ==
    IF results = <<>> THEN ""
    ELSE IF Head(results).err # "" THEN Head(results).err
    ELSE FirstError(Tail(results))

\* float(s) of the texts that occur in the documents: a decimal number with
\* an optional sign, blanks around it ignored
PyFloat(s) ==
    IF s # <<>> /\ s[1] = "-" THEN Negated(Magnitude(Tail(s), 10))
    ELSE IF s # <<>> /\ s[1] = "+" THEN Magnitude(Tail(s), 10)
    ELSE Magnitude(s, 10)

\* text_to_num_fn = float if is_float else parse_int_string
text_to_num_fn(is_float, text) ==
    IF is_float THEN PyFloat(Strip(text)) ELSE parse_int_string(text)

WrapValue(number) ==
    IF number.err # "" THEN number ELSE Ok(Some(number.val))

\* None if limit is None else text_to_num_fn(limit.text)
LimitOf(doc, is_float, limit) ==
    IF limit.err # "" THEN limit
    ELSE IF limit.val = None THEN Ok(None)
    ELSE IF NodeAt(doc, limit.val[1]).text = None
    THEN Fail(IF is_float THEN "TypeError" ELSE "AttributeError")
    ELSE WrapValue(text_to_num_fn(is_float,
                                  NodeAt(doc, limit.val[1]).text[1]))

\* parse_int_string(lower_limit.text) when the scale has a VT
ChoiceValue(doc, lower_limit, vt) ==
    IF vt.err # "" THEN vt
    ELSE IF vt.val = None THEN Ok(None)
    ELSE WrapValue(ParsedText(doc, lower_limit))

\* self._load_comments(node); l_2.attrib.get('L', 'EN') of an L-2 element,
\* which has no L attribute in the documents
LanguageOf(l_2) == "EN"

RECURSIVE CommentsOf(_, _, _)
CommentsOf(doc, l_2s, result) ==
    IF l_2s = <<>> THEN result
    ELSE CommentsOf(doc, Tail(l_2s),
                    DictSet(result, LanguageOf(NodeAt(doc, Head(l_2s))),
                            NodeAt(doc, Head(l_2s)).text))

CommentsFound(doc, l_2s) ==
    IF l_2s.err # "" THEN l_2s
    ELSE IF l_2s.val = <<>> THEN Ok(None)
    ELSE Ok(Some(CommentsOf(doc, l_2s.val, <<>>)))

_load_comments(doc, maps, node) ==
    CommentsFound(doc, _get_arxml_children(doc, maps, Some(node),
                                           <<One("DESC"), Many("L-2")>>))

NamedSignalValue(value, name, comments) ==
    [value |-> value, name |-> name, comments |-> comments]

\* the limits and the choice of one COMPU-SCALE, given what its queries
\* returned
TexttableScale(doc, reads, vt) ==
    IF FirstError(reads) # "" THEN Fail(FirstError(reads))
    ELSE Ok([minimum_int_scale |-> reads[5].val,
             maximum_int_scale |-> reads[6].val,
             choice |-> IF vt.val = None THEN None
                        ELSE Some(NamedSignalValue(
                                     reads[7].val[1],
                                     NodeAt(doc, vt.val[1]).text,
                                     reads[4].val))])

ReadTexttableScale(doc, is_float, lower_limit, upper_limit, vt, comments) ==
    TexttableScale(doc,
                   <<lower_limit, upper_limit, vt, comments,
                     LimitOf(doc, is_float, lower_limit),
                     LimitOf(doc, is_float, upper_limit),
                     ChoiceValue(doc, lower_limit, vt)>>,
                   vt)

\* the body of the loop over the scales of a TEXTTABLE
LoadTexttableScale(doc, maps, compu_scale, is_float) ==
    ReadTexttableScale(doc, is_float,
        _get_unique_arxml_child(doc, maps, Some(compu_scale),
                                <<One("LOWER-LIMIT")>>),
        _get_unique_arxml_child(doc, maps, Some(compu_scale),
                                <<One("UPPER-LIMIT")>>),
        _get_unique_arxml_child(doc, maps, Some(compu_scale),
                                <<OneRef("COMPU-CONST"), One("VT")>>),
        _load_comments(doc, maps, compu_scale))

Smaller(a, b) == IF a < b THEN a ELSE b
Larger(a, b) == IF a > b THEN a ELSE b

\* a minimum that takes the limit of the last scale only
MergedMinimum_last(minimum, minimum_int_scale) == minimum_int_scale

\* lines 806-809
MergedMinimum(minimum, minimum_int_scale) ==
    IF minimum = None THEN minimum_int_scale
    ELSE IF minimum_int_scale # None
    THEN Some(Smaller(minimum[1], minimum_int_scale[1]))
    ELSE minimum

\* lines 811-814
MergedMaximum(maximum, maximum_int_scale) ==
    IF maximum = None THEN maximum_int_scale
    ELSE IF maximum_int_scale # None
    THEN Some(Larger(maximum[1], maximum_int_scale[1]))
    ELSE maximum

\* choices[value] = NamedSignalValue(value, name, comments)
WithChoice(choices, choice) ==
    IF choice = None THEN choices
    ELSE DictSet(choices, choice[1].value, choice[1])

TexttableMerged(table, scale) ==
    IF scale.err # "" THEN scale
    ELSE Ok([minimum |-> MergedMinimum(table.minimum,
                                       scale.val.minimum_int_scale),
             maximum |-> MergedMaximum(table.maximum,
                                       scale.val.maximum_int_scale),
             choices |-> WithChoice(table.choices, scale.val.choice)])

\* the loop over the scales
RECURSIVE TexttableOf(_, _, _, _, _)
TexttableOf(doc, maps, compu_scales, is_float, table) ==
    IF table.err # "" \/ compu_scales = <<>> THEN table
    ELSE TexttableOf(doc, maps, Tail(compu_scales), is_float,
                     TexttableMerged(table.val,
                                     LoadTexttableScale(doc, maps,
                                                        Head(compu_scales),
                                                        is_float)))

TexttableOfScales(doc, maps, compu_scales, is_float) ==
    IF compu_scales.err # "" THEN compu_scales
    ELSE TexttableOf(doc, maps, compu_scales.val, is_float,
                     Ok([minimum |-> None, maximum |-> None,
                         choices |-> <<>>]))

_load_texttable(doc, maps, compu_method, is_float) ==
    TexttableOfScales(doc, maps,
        _get_arxml_children(doc, maps, Some(compu_method),
                            <<OneRef("COMPU-INTERNAL-TO-PHYS"),
                              One("COMPU-SCALES"), ManyRef("COMPU-SCALE")>>),
        is_float)

\* A float is the rational number it stands for, in lowest terms with a
\* positive denominator.  The rounding to a binary64 is left out: the
\* denominators of the documents are powers of two.
RECURSIVE Gcd(_, _)
Gcd(a, b) == IF b = 0 THEN a ELSE Gcd(b, a % b)

Abs(n) == IF n < 0 THEN 0 - n ELSE n

Float(num, den) ==
    [num |-> (IF den < 0 THEN 0 - num ELSE num)
                \div Gcd(Abs(num), Abs(den)),
     den |-> Abs(den) \div Gcd(Abs(num), Abs(den))]

\* an int times a float plus a float
Projected(internal, factor, offset) ==
    Float(internal * factor.num * offset.den + offset.num * factor.den,
          factor.den * offset.den)

\* Decimal(text) of the texts that occur in the documents: a decimal
\* number with an optional sign, blanks around it ignored
SignedDecimal(s) ==
    IF s # <<>> /\ s[1] = "-" THEN Negated(Magnitude(Tail(s), 10))
    ELSE IF s # <<>> /\ s[1] = "+" THEN Magnitude(Tail(s), 10)
    ELSE Magnitude(s, 10)

PyDecimal(text) ==
    IF text = None THEN Fail("TypeError")
    ELSE IF SignedDecimal(Strip(text[1])).err # ""
    THEN Fail("InvalidOperation")
    ELSE SignedDecimal(Strip(text[1]))

\* float(Decimal(...) / denominator)
Quotient(numerator, denominator) ==
    IF numerator.err # "" THEN numerator
    ELSE IF denominator = 0
    THEN Fail(IF numerator.val = 0 THEN "InvalidOperation"
              ELSE "DivisionByZero")
    ELSE Ok(Float(numerator.val, denominator))

\* a variant that takes the scale from the first numerator and the offset
\* from the second
ScaleAndOffset_swapped(doc, numerators, denominator) ==
    IF denominator.err # "" THEN denominator
    ELSE IF Quotient(PyDecimal(NodeAt(doc, numerators[1]).text),
                     denominator.val).err # ""
    THEN Quotient(PyDecimal(NodeAt(doc, numerators[1]).text),
                  denominator.val)
    ELSE IF Quotient(PyDecimal(NodeAt(doc, numerators[2]).text),
                     denominator.val).err # ""
    THEN Quotient(PyDecimal(NodeAt(doc, numerators[2]).text),
                  denominator.val)
    ELSE Ok([factor |->
                Some(Quotient(PyDecimal(NodeAt(doc, numerators[1]).text),
                              denominator.val).val),
             offset |->
                Some(Quotient(PyDecimal(NodeAt(doc, numerators[2]).text),
                              denominator.val).val)])

\* lines 848-852: the scale is the second numerator and the offset the
\* first, each divided by the denominator
ScaleAndOffset(doc, numerators, denominator) ==
    IF denominator.err # "" THEN denominator
    ELSE IF Quotient(PyDecimal(NodeAt(doc, numerators[2]).text),
                     denominator.val).err # ""
    THEN Quotient(PyDecimal(NodeAt(doc, numerators[2]).text),
                  denominator.val)
    ELSE IF Quotient(PyDecimal(NodeAt(doc, numerators[1]).text),
                     denominator.val).err # ""
    THEN Quotient(PyDecimal(NodeAt(doc, numerators[1]).text),
                  denominator.val)
    ELSE Ok([factor |->
                Some(Quotient(PyDecimal(NodeAt(doc, numerators[2]).text),
                              denominator.val).val),
             offset |->
                Some(Quotient(PyDecimal(NodeAt(doc, numerators[1]).text),
                              denominator.val).val)])

\* lines 840-852, given the numerators
CoeffsOfDenominators(doc, numerators, denominators) ==
    IF denominators.err # "" THEN denominators
    ELSE IF Len(denominators.val) # 1 THEN Fail("ValueError")
    ELSE ScaleAndOffset(doc, numerators,
                        PyDecimal(NodeAt(doc, denominators.val[1]).text))

\* lines 832-852, given the COMPU-RATIONAL-COEFFS
CoeffsOfNumerators(doc, maps, compu_rational_coeffs, numerators) ==
    IF numerators.err # "" THEN numerators
    ELSE IF Len(numerators.val) # 2 THEN Fail("ValueError")
    ELSE CoeffsOfDenominators(doc, numerators.val,
             _get_arxml_children(doc, maps, compu_rational_coeffs,
                                 <<OneRef("COMPU-DENOMINATOR"),
                                   ManyRef("V")>>))

RationalCoeffs(doc, maps, compu_rational_coeffs) ==
    IF compu_rational_coeffs.err # "" THEN compu_rational_coeffs
    ELSE IF compu_rational_coeffs.val = None
    THEN Ok([factor |-> None, offset |-> None])
    ELSE CoeffsOfNumerators(doc, maps, compu_rational_coeffs.val,
             _get_arxml_children(doc, maps, compu_rational_coeffs.val,
                                 <<OneRef("COMPU-NUMERATOR"),
                                   ManyRef("V")>>))

\* the factor and the offset as floats, None for each without coefficients
_load_linear_factor_and_offset(doc, maps, compu_scale) ==
    RationalCoeffs(doc, maps,
        _get_unique_arxml_child(doc, maps, compu_scale,
                                <<OneRef("COMPU-RATIONAL-COEFFS")>>))

\* None if the internal limit is None, else the limit times the factor
\* plus the offset
Physical(internal, factor, offset) ==
    IF internal = None THEN None
    ELSE Some(Projected(internal[1], factor, offset))

\* lines 874-883
LinearProjected(minimum_int, maximum_int, factor, offset) ==
    [minimum |-> Physical(minimum_int, factor, offset),
     maximum |-> Physical(maximum_int, factor, offset),
     factor |-> factor, offset |-> offset]

\* lines 866-883, given what the queries returned
LinearOfLimits(minimum_int, maximum_int, coeffs) ==
    IF minimum_int.err # "" THEN minimum_int
    ELSE IF maximum_int.err # "" THEN maximum_int
    ELSE IF coeffs.err # "" THEN coeffs
    ELSE Ok(LinearProjected(minimum_int.val, maximum_int.val,
               IF coeffs.val.factor = None THEN Float(1, 1)
               ELSE coeffs.val.factor[1],
               IF coeffs.val.offset = None THEN Float(0, 1)
               ELSE coeffs.val.offset[1]))

LinearOfScale(doc, maps, compu_scale, lower_limit, upper_limit) ==
    IF lower_limit.err # "" THEN lower_limit
    ELSE IF upper_limit.err # "" THEN upper_limit
    ELSE LinearOfLimits(LimitOf(doc, FALSE, lower_limit),
                        LimitOf(doc, FALSE, upper_limit),
                        _load_linear_factor_and_offset(doc, maps,
                                                       compu_scale))

LinearOfCompuScale(doc, maps, compu_scale) ==
    IF compu_scale.err # "" THEN compu_scale
    ELSE LinearOfScale(doc, maps, compu_scale.val,
             _get_unique_arxml_child(doc, maps, compu_scale.val,
                                     <<OneRef("LOWER-LIMIT")>>),
             _get_unique_arxml_child(doc, maps, compu_scale.val,
                                     <<OneRef("UPPER-LIMIT")>>))

_load_linear(doc, maps, compu_method) ==
    LinearOfCompuScale(doc, maps,
        _get_unique_arxml_child(doc, maps, Some(compu_method),
                                <<One("COMPU-INTERNAL-TO-PHYS"),
                                  One("COMPU-SCALES"),
                                  OneRef("COMPU-SCALE")>>))

\* min and max of two floats
FloatMin(a, b) == IF b.num * a.den < a.num * b.den THEN b ELSE a
FloatMax(a, b) == IF b.num * a.den > a.num * b.den THEN b ELSE a

\* a merge that keeps the limit of the first scale
MergedPhysical_first(limit, limit_int_scale, factor_scale, offset_scale, is_min) ==
    IF limit = None /\ limit_int_scale = None THEN Fail("TypeError")
    ELSE IF limit = None
    THEN Ok(Some(Projected(limit_int_scale[1], factor_scale, offset_scale)))
    ELSE Ok(limit)

\* lines 931-935 and 937-941: the limit of the scale projected through
\* the scale's own factor and offset, merged by min or by max
MergedPhysical(limit, limit_int_scale, factor_scale, offset_scale, is_min) ==
    IF limit = None /\ limit_int_scale = None THEN Fail("TypeError")
    ELSE IF limit = None
    THEN Ok(Some(Projected(limit_int_scale[1], factor_scale, offset_scale)))
    ELSE IF limit_int_scale = None THEN Ok(limit)
    ELSE IF is_min
    THEN Ok(Some(FloatMin(limit[1],
                          Projected(limit_int_scale[1], factor_scale,
                                    offset_scale))))
    ELSE Ok(Some(FloatMax(limit[1],
                          Projected(limit_int_scale[1], factor_scale,
                                    offset_scale))))

\* lines 943-948
ScaleChoice(doc, choices, vt, comments, minimum_int_scale, maximum_int_scale) ==
    IF vt = None THEN Ok(choices)
    ELSE IF minimum_int_scale = None \/ minimum_int_scale # maximum_int_scale
    THEN Fail("AssertionError")
    ELSE Ok(DictSet(choices, minimum_int_scale[1],
                    NamedSignalValue(minimum_int_scale[1],
                                     NodeAt(doc, vt[1]).text, comments)))

\* the table after a scale, given the merged limits and choices
ScaleMerged(table, coeffs, minimum, maximum, choices) ==
    IF minimum.err # "" THEN minimum
    ELSE IF maximum.err # "" THEN maximum
    ELSE IF choices.err # "" THEN choices
    ELSE Ok([minimum |-> minimum.val, maximum |-> maximum.val,
             factor |-> IF coeffs.factor = None THEN table.factor
                        ELSE coeffs.factor[1],
             offset |-> IF coeffs.offset = None THEN table.offset
                        ELSE coeffs.offset[1],
             choices |-> choices.val])

\* lines 918-948, given the limits and the coefficients of the scale
ScaleProjected(doc, table, vt, comments, minimum_int_scale, maximum_int_scale, coeffs, factor_scale, offset_scale) ==
    ScaleMerged(table, coeffs,
        MergedPhysical(table.minimum, minimum_int_scale, factor_scale,
                       offset_scale, TRUE),
        MergedPhysical(table.maximum, maximum_int_scale, factor_scale,
                       offset_scale, FALSE),
        ScaleChoice(doc, table.choices, vt, comments, minimum_int_scale,
                    maximum_int_scale))

\* the body of the loop over the scales, given what its queries returned
ScaleRead(doc, table, reads) ==
    IF FirstError(reads) # "" THEN Fail(FirstError(reads))
    ELSE ScaleProjected(doc, table, reads[3].val, reads[4].val, reads[5].val,
             reads[6].val, reads[7].val,
             IF reads[7].val.factor = None THEN Float(1, 1)
             ELSE reads[7].val.factor[1],
             IF reads[7].val.offset = None THEN Float(0, 1)
             ELSE reads[7].val.offset[1])

ScaleOfQueries(doc, maps, table, compu_scale, lower_limit, upper_limit) ==
    ScaleRead(doc, table,
        <<lower_limit, upper_limit,
          _get_unique_arxml_child(doc, maps, Some(compu_scale),
                                  <<OneRef("COMPU-CONST"), One("VT")>>),
          _load_comments(doc, maps, compu_scale),
          LimitOf(doc, FALSE, lower_limit),
          LimitOf(doc, FALSE, upper_limit),
          _load_linear_factor_and_offset(doc, maps, Some(compu_scale))>>)

LoadScaleLinearScale(doc, maps, table, compu_scale) ==
    ScaleOfQueries(doc, maps, table, compu_scale,
        _get_unique_arxml_child(doc, maps, Some(compu_scale),
                                <<One("LOWER-LIMIT")>>),
        _get_unique_arxml_child(doc, maps, Some(compu_scale),
                                <<One("UPPER-LIMIT")>>))

\* the loop over the scales: the factor and the offset of the last scale
\* that has coefficients stay
RECURSIVE ScaleLinearOf(_, _, _, _)
ScaleLinearOf(doc, maps, compu_scales, table) ==
    IF table.err # "" \/ compu_scales = <<>> THEN table
    ELSE ScaleLinearOf(doc, maps, Tail(compu_scales),
                       LoadScaleLinearScale(doc, maps, table.val,
                                            Head(compu_scales)))

\* lines 950-952: Decimal(None) raises
ScaleLinearChecked(table) ==
    IF table.err # "" THEN table
    ELSE IF table.val.minimum = None \/ table.val.maximum = None
    THEN Fail("TypeError")
    ELSE table

ScaleLinearOfScales(doc, maps, compu_scales) ==
    IF compu_scales.err # "" THEN compu_scales
    ELSE ScaleLinearChecked(
             ScaleLinearOf(doc, maps, compu_scales.val,
                           Ok([minimum |-> None, maximum |-> None,
                               factor |-> 1, offset |-> 0,
                               choices |-> <<>>])))

_load_scale_linear_and_texttable(doc, maps, compu_method) ==
    ScaleLinearOfScales(doc, maps,
        _get_arxml_children(doc, maps, Some(compu_method),
                            <<OneRef("COMPU-INTERNAL-TO-PHYS"),
                              One("COMPU-SCALES"), ManyRef("COMPU-SCALE")>>))

CompuMethodLocation(v4) ==
    IF v4
    THEN <<OneRef("PHYSICAL-PROPS"), One("SW-DATA-DEF-PROPS-VARIANTS"),
           OneRef("SW-DATA-DEF-PROPS-CONDITIONAL"), OneRef("COMPU-METHOD")>>
    ELSE <<OneRef("DATA-TYPE"), One("SW-DATA-DEF-PROPS"),
           OneRef("COMPU-METHOD")>>

_get_compu_method(doc, maps, v4, system_signal) ==
    _get_unique_arxml_child(doc, maps, Some(system_signal),
                            CompuMethodLocation(v4))

\* None if res is None or res.text in ignorelist, else res.text
UnitText(doc, res) ==
    IF res.err # "" THEN res
    ELSE IF res.val = None THEN Ok(None)
    ELSE IF NodeAt(doc, res.val[1]).text = Some(<<"NoUnit">>) THEN Ok(None)
    ELSE Ok(NodeAt(doc, res.val[1]).text)

\* the unit of the system signal; the one of the compu method without it
UnitFound(doc, maps, compu_method, res) ==
    IF res.err = "" /\ res.val = None /\ compu_method # None
    THEN UnitText(doc,
                  _get_unique_arxml_child(doc, maps, compu_method,
                                          <<OneRef("UNIT"),
                                            One("DISPLAY-NAME")>>))
    ELSE UnitText(doc, res)

_load_system_signal_unit(doc, maps, system_signal, compu_method) ==
    UnitFound(doc, maps, compu_method,
              _get_unique_arxml_child(doc, maps, Some(system_signal),
                  <<One("PHYSICAL-PROPS"), One("SW-DATA-DEF-PROPS-VARIANTS"),
                    OneRef("SW-DATA-DEF-PROPS-CONDITIONAL"), OneRef("UNIT"),
                    One("DISPLAY-NAME")>>))

\* what _load_system_signal returns
Properties(minimum, maximum, factor, offset, choices, unit, comments) ==
    [minimum |-> minimum, maximum |-> maximum, factor |-> factor,
     offset |-> offset, choices |-> choices, unit |-> unit,
     comments |-> comments]

\* the factor and offset a TEXTTABLE signal gets in a variant that derives
\* them from its limits
TexttableProperties_scaled(table, unit, comments) ==
    IF table.err # "" THEN table
    ELSE Ok(Properties(table.val.minimum, table.val.maximum,
                       IF table.val.maximum = None THEN 1
                       ELSE table.val.maximum[1],
                       IF table.val.minimum = None THEN 0
                       ELSE table.val.minimum[1],
                       Some(table.val.choices), unit, comments))

\* lines 984-986 and the return: the table's limits and choices, the
\* factor and the offset as they were
TexttableProperties(table, unit, comments) ==
    IF table.err # "" THEN table
    ELSE Ok(Properties(table.val.minimum, table.val.maximum, 1, 0,
                       Some(table.val.choices), unit, comments))

\* lines 987-989 and the return
LinearProperties(linear, unit, comments) ==
    IF linear.err # "" THEN linear
    ELSE Ok(Properties(linear.val.minimum, linear.val.maximum,
                       linear.val.factor, linear.val.offset, None, unit,
                       comments))

\* lines 990-997 and the return
ScaleLinearProperties(table, unit, comments) ==
    IF table.err # "" THEN table
    ELSE Ok(Properties(table.val.minimum, table.val.maximum,
                       table.val.factor, table.val.offset,
                       Some(table.val.choices), unit, comments))

\* a variant that takes a category it does not know for an error
UnknownCategory_fatal(unit, comments) == Fail("NotImplementedError")

\* lines 998-1009: a category that is none of the three is logged and the
\* defaults are returned
UnknownCategory(unit, comments) ==
    Ok(Properties(None, None, 1, 0, None, unit, comments))

\* _load_system_signal from "if compu_method is not None" on
ScaledProperties(doc, maps, is_float, compu_method, unit, comments, category) ==
    IF FirstError(<<unit, comments, category>>) # ""
    THEN Fail(FirstError(<<unit, comments, category>>))
    ELSE IF compu_method = None \/ category.val = None
    THEN Ok(Properties(None, None, 1, 0, None, unit.val, comments.val))
    ELSE IF NodeAt(doc, category.val[1]).text = Some(<<"TEXTTABLE">>)
    THEN TexttableProperties(_load_texttable(doc, maps, compu_method[1],
                                             is_float),
                             unit.val, comments.val)
    ELSE IF NodeAt(doc, category.val[1]).text = Some(<<"LINEAR">>)
    THEN LinearProperties(_load_linear(doc, maps, compu_method[1]),
                          unit.val, comments.val)
    ELSE IF NodeAt(doc, category.val[1]).text
               = Some(<<"SCALE_LINEAR_AND_TEXTTABLE">>)
    THEN ScaleLinearProperties(
             _load_scale_linear_and_texttable(doc, maps, compu_method[1]),
             unit.val, comments.val)
    ELSE UnknownCategory(unit.val, comments.val)

CategoryOf(doc, maps, compu_method) ==
    IF compu_method = None THEN Ok(None)
    ELSE _get_unique_arxml_child(doc, maps, compu_method, <<One("CATEGORY")>>)

SystemSignalProperties(doc, maps, system_signal, is_float, compu_method) ==
    IF compu_method.err # "" THEN compu_method
    ELSE ScaledProperties(doc, maps, is_float, compu_method.val,
             _load_system_signal_unit(doc, maps, system_signal,
                                      compu_method.val),
             _load_comments(doc, maps, system_signal),
             CategoryOf(doc, maps, compu_method.val))

_load_system_signal(doc, maps, v4, system_signal, is_float) ==
    SystemSignalProperties(doc, maps, system_signal, is_float,
                           _get_compu_method(doc, maps, v4, system_signal))

-----------------------------------------------------------------------------
(* Documents with one system signal and its TEXTTABLE compu method         *)

\* the texts of the limits: 0, 1, 010 (octal 8, decimal 10) and " 2"
NumberTexts == {<<"0">>, <<"1">>, <<"0", "1", "0">>, <<" ", "2">>}

Optional(tag, texts) == {<<>>} \cup {<<Leaf(tag, text)>> : text \in texts}

CompuConsts ==
    {<<>>} \cup {<<Element("COMPU-CONST", None, <<Leaf("VT", <<name>>)>>)>> :
                    name \in {"OFF", "ON"}}

CompuScales ==
    {Element("COMPU-SCALE", None, lower \o upper \o vt) :
        lower \in Optional("LOWER-LIMIT", NumberTexts),
        upper \in Optional("UPPER-LIMIT", NumberTexts),
        vt \in CompuConsts}

CompuMethod(name, category, compu_scales) ==
    Element("COMPU-METHOD", None,
            <<Leaf("SHORT-NAME", <<name>>), Leaf("CATEGORY", <<category>>),
              Element("COMPU-INTERNAL-TO-PHYS", None,
                      <<Element("COMPU-SCALES", None, compu_scales)>>)>>)

\* an AUTOSAR 4 system signal that refers to the compu method /p/<name>
SystemSignal(name, compu_method_name) ==
    Element("SYSTEM-SIGNAL", None,
            <<Leaf("SHORT-NAME", <<name>>),
              Element("PHYSICAL-PROPS", None,
                <<Element("SW-DATA-DEF-PROPS-VARIANTS", None,
                    <<Element("SW-DATA-DEF-PROPS-CONDITIONAL", None,
                        <<Reference("COMPU-METHOD-REF",
                                    <<"", "p", compu_method_name>>,
                                    Some("COMPU-METHOD"), None)>>)>>)>>)>>)

\* a document with the package /p and the given elements
PackageDocument(elements) ==
    Element("AUTOSAR", None,
            <<Element("AR-PACKAGES", None,
                      <<Element("AR-PACKAGE", None,
                                <<Leaf("SHORT-NAME", <<"p">>),
                                  Element("ELEMENTS", None, elements)>>)>>)>>)

TexttableDocuments(maxScales) ==
    {PackageDocument(<<SystemSignal("s", "cm"),
                       CompuMethod("cm", "TEXTTABLE", compu_scales)>>) :
        compu_scales \in SeqsUpTo(CompuScales, maxScales)}

\* where the system signal and the scales of these documents are
SystemSignalPos == <<1, 1, 2, 1>>
CompuScalesPos == <<1, 1, 2, 2, 3, 1>>

-----------------------------------------------------------------------------
(* _load_system_signal on a freshly constructed SystemLoader               *)

TtInit ==
    /\ tt_doc = None
    /\ tt_is_float = FALSE
    /\ tt_state = "ready"
    /\ tt_result = None

Returning(result) ==
    /\ tt_state' = IF result.err # "" THEN "aborted" ELSE "done"
    /\ tt_result' = IF result.err # "" THEN None ELSE Some(result.val)

LoadSystemSignal(doc, is_float) ==
    /\ tt_doc' = Some(doc)
    /\ tt_is_float' = is_float
    /\ Returning(_load_system_signal(doc,
                     _create_arxml_reference_dicts(doc).maps,
                     autosar_version_newer(4, None, None),
                     SystemSignalPos, is_float))
    /\ UNCHANGED <<verVars, msgVars, idxVars, loadVars, ecuVars,
                 qryVars, logVars>>

LoadTexttableSignal ==
    /\ tt_state = "ready"
    /\ \E doc \in TexttableDocuments(MaxScales), is_float \in BOOLEAN :
          LoadSystemSignal(doc, is_float)

TtNext == LoadTexttableSignal

TexttableInit ==
    TtInit /\ VerIdle /\ MsgIdle /\ IdxIdle /\ LoadIdle /\ EcuIdle /\ QryIdle
    /\ LogIdle

SpecTexttable == TexttableInit /\ [][TtNext]_vars

-----------------------------------------------------------------------------
(* Properties of the TEXTTABLE signal                                      *)

\* the text of the first child of an element with the given tag, None
\* without one
KidText(element, tag) ==
    IF \A i \in 1..Len(element.kids) : element.kids[i].tag # tag THEN None
    ELSE element.kids[CHOOSE i \in 1..Len(element.kids) :
                         element.kids[i].tag = tag].text

\* the named constant of a scale
ScaleName(compu_scale) ==
    IF \A i \in 1..Len(compu_scale.kids) :
           compu_scale.kids[i].tag # "COMPU-CONST"
    THEN None
    ELSE KidText(compu_scale.kids[CHOOSE i \in 1..Len(compu_scale.kids) :
                    compu_scale.kids[i].tag = "COMPU-CONST"], "VT")

\* the raw value of a limit of the scales, as the signal's type reads it
LimitValue(is_float, text) == text_to_num_fn(is_float, text[1]).val

\* the raw value a choice is keyed by
KeyValue(text) == parse_int_string(text[1]).val

Limits(compu_scales, tag, is_float) ==
    {LimitValue(is_float, KidText(compu_scales[k], tag)) :
        k \in {k \in 1..Len(compu_scales) :
                  KidText(compu_scales[k], tag) # None}}

Named(compu_scales) ==
    {k \in 1..Len(compu_scales) : ScaleName(compu_scales[k]) # None}

\* the last scale with a named constant that has the lower limit of scale k
LastKeyed(compu_scales, k) ==
    CHOOSE j \in Named(compu_scales) :
        /\ KeyValue(KidText(compu_scales[j], "LOWER-LIMIT"))
              = KeyValue(KidText(compu_scales[k], "LOWER-LIMIT"))
        /\ \A i \in Named(compu_scales) :
              KeyValue(KidText(compu_scales[i], "LOWER-LIMIT"))
                 = KeyValue(KidText(compu_scales[k], "LOWER-LIMIT"))
              => i <= j

ChoicesOfScales(compu_scales, choices) ==
    /\ DOMAIN choices =
          {KeyValue(KidText(compu_scales[k], "LOWER-LIMIT")) :
              k \in Named(compu_scales)}
    /\ \A k \in Named(compu_scales) :
          choices[KeyValue(KidText(compu_scales[k], "LOWER-LIMIT"))].name
             = ScaleName(compu_scales[LastKeyed(compu_scales, k)])

SmallestOf(values) ==
    IF values = {} THEN None
    ELSE Some(CHOOSE v \in values : \A w \in values : v <= w)

LargestOf(values) ==
    IF values = {} THEN None
    ELSE Some(CHOOSE v \in values : \A w \in values : v >= w)

TexttableLoaded(compu_scales, is_float, properties) ==
    /\ properties.factor = 1
    /\ properties.offset = 0
    /\ properties.choices # None
    /\ ChoicesOfScales(compu_scales, properties.choices[1])
    /\ properties.minimum
          = SmallestOf(Limits(compu_scales, "LOWER-LIMIT", is_float))
    /\ properties.maximum
          = LargestOf(Limits(compu_scales, "UPPER-LIMIT", is_float))

\* C10: a system signal with a TEXTTABLE compu method that has been loaded
\* has scale 1 and offset 0; its choices are keyed by the lower limits of the
\* scales that carry a named constant, each key naming the constant of the
\* last such scale; its minimum is the smallest lower limit and its maximum
\* the largest upper limit of the scales that have one (None without any).
C10_TexttableProperties ==
    tt_state = "done" =>
        TexttableLoaded(NodeAt(tt_doc[1], CompuScalesPos).kids, tt_is_float,
                        tt_result[1])

\* two scales with named constants and distinct lower limits, the second
\* limit smaller than the first and one of them written in octal
C10_Witness ==
    /\ tt_state = "done"
    /\ ~tt_is_float
    /\ Cardinality(DOMAIN tt_result[1].choices[1]) = 2
    /\ 8 \in DOMAIN tt_result[1].choices[1]
    /\ tt_result[1].minimum = Some(1)
    /\ tt_result[1].maximum = Some(8)
    /\ KidText(NodeAt(tt_doc[1], CompuScalesPos).kids[2], "LOWER-LIMIT")
          = Some(<<"1">>)

-----------------------------------------------------------------------------
(* SystemLoader._load_signal                                               *)

\* self._get_unique_arxml_child(base_elem, location)
Query(doc, maps, base_elem, location) ==
    _get_unique_arxml_child(doc, maps, base_elem, location)

_get_i_signal(doc, maps, v4, i_signal_to_i_pdu_mapping) ==
    Query(doc, maps, Some(i_signal_to_i_pdu_mapping),
          IF v4 THEN <<OneRef("I-SIGNAL")>> ELSE <<OneRef("SIGNAL")>>)

\* parse_int_string(length.text) of the first LENGTH that is there: the one
\* of the i-signal, in AUTOSAR 3 also the one of the system signal
SignalLength(doc, i_signal_length, system_signal_length) ==
    IF i_signal_length.err # "" THEN i_signal_length
    ELSE IF i_signal_length.val # None
    THEN WrapValue(ParsedText(doc, i_signal_length))
    ELSE IF system_signal_length.err # "" THEN system_signal_length
    ELSE IF system_signal_length.val # None
    THEN WrapValue(ParsedText(doc, system_signal_length))
    ELSE Ok(None)

_load_signal_length(doc, maps, v4, i_signal, system_signal) ==
    SignalLength(doc,
                 Query(doc, maps, Some(i_signal), <<One("LENGTH")>>),
                 IF ~v4 /\ system_signal # None
                 THEN Query(doc, maps, system_signal, <<One("LENGTH")>>)
                 ELSE Ok(None))

ByteOrder(doc, packing_byte_order) ==
    IF packing_byte_order.err # "" THEN packing_byte_order
    ELSE IF /\ packing_byte_order.val # None
            /\ NodeAt(doc, packing_byte_order.val[1]).text
                  = Some(<<"MOST-SIGNIFICANT-BYTE-FIRST">>)
    THEN Ok("big_endian")
    ELSE Ok("little_endian")

_load_signal_byte_order(doc, maps, i_signal_to_i_pdu_mapping) ==
    ByteOrder(doc, Query(doc, maps, Some(i_signal_to_i_pdu_mapping),
                         <<One("PACKING-BYTE-ORDER")>>))

\* is_signed and is_float of an encoding
SignalType(doc, base_type_encoding) ==
    IF base_type_encoding.err # "" THEN base_type_encoding
    ELSE IF base_type_encoding.val = None THEN Fail("NameError")
    ELSE Ok([is_signed |-> NodeAt(doc, base_type_encoding.val[1]).text
                              \in {Some(<<"2C">>), Some(<<"1C">>),
                                   Some(<<"SM">>)},
             is_float |-> NodeAt(doc, base_type_encoding.val[1]).text
                             = Some(<<"IEEE754">>)])

TypeOfBase(doc, maps, base_type) ==
    IF base_type.err # "" THEN base_type
    ELSE IF base_type.val = None
    THEN Ok([is_signed |-> FALSE, is_float |-> FALSE])
    ELSE SignalType(doc, Query(doc, maps, base_type.val,
                               <<OneRef("BASE-TYPE-ENCODING")>>))

_load_signal_type(doc, maps, i_signal) ==
    TypeOfBase(doc, maps,
               Query(doc, maps, Some(i_signal),
                     <<OneRef("NETWORK-REPRESENTATION-PROPS"),
                       One("SW-DATA-DEF-PROPS-VARIANTS"),
                       OneRef("SW-DATA-DEF-PROPS-CONDITIONAL"),
                       OneRef("BASE-TYPE")>>))

\* elem.text of the node of a query, None without a node
OptionalText(doc, found) ==
    IF found.err # "" THEN found
    ELSE IF found.val = None THEN Ok(None)
    ELSE Ok(NodeAt(doc, found.val[1]).text)

\* the AUTOSAR 4 branch of the helper: the value given directly, else the
\* value of the referenced constant
InitValueDirect(doc, maps, signal_elem, value_elem) ==
    IF value_elem.err # "" \/ value_elem.val # None
    THEN OptionalText(doc, value_elem)
    ELSE OptionalText(doc,
             Query(doc, maps, Some(signal_elem),
                   <<One("INIT-VALUE"), One("CONSTANT-REFERENCE"),
                     OneRef("CONSTANT"), One("VALUE-SPEC"),
                     One("NUMERICAL-VALUE-SPECIFICATION"), One("VALUE")>>))

\* lines 735-741: no initial value when the reference leads nowhere or the
\* literal has no VALUE
InitValueOfLiteral(doc, literal_spec) ==
    IF literal_spec.err # "" THEN literal_spec
    ELSE IF literal_spec.val = None THEN Ok(None)
    ELSE Ok(FindText(doc, literal_spec.val[1], "VALUE"))

\* the AUTOSAR 3 branch of the helper
InitValueReferenced(doc, maps, signal_elem, ref_elem) ==
    IF ref_elem = None THEN Ok(None)
    ELSE IF NodeAt(doc, ref_elem[1]).text = None THEN Fail("AttributeError")
    ELSE InitValueOfLiteral(doc,
             _follow_arxml_reference(doc, maps, signal_elem,
                                     NodeAt(doc, ref_elem[1]).text[1],
                                     NodeAt(doc, ref_elem[1]).dest,
                                     NodeAt(doc, ref_elem[1]).base))

_load_arxml_init_value_string_helper(doc, maps, v4, signal_elem) ==
    IF v4
    THEN InitValueDirect(doc, maps, signal_elem,
             Query(doc, maps, Some(signal_elem),
                   <<One("INIT-VALUE"), One("NUMERICAL-VALUE-SPECIFICATION"),
                     One("VALUE")>>))
    ELSE InitValueReferenced(doc, maps, signal_elem,
                             Find(doc, signal_elem, "INIT-VALUE-REF"))

_load_arxml_init_value_string(doc, maps, v4, i_signal, system_signal) ==
    IF v4
    THEN _load_arxml_init_value_string_helper(doc, maps, v4, i_signal)
    ELSE IF system_signal = None THEN Ok(None)
    ELSE _load_arxml_init_value_string_helper(doc, maps, v4,
                                              system_signal[1])

\* str.lower() of the letters of true and false
LowerChar(c) ==
    CASE c = "T" -> "t" [] c = "R" -> "r" [] c = "U" -> "u" [] c = "E" -> "e"
      [] c = "F" -> "f" [] c = "A" -> "a" [] c = "L" -> "l" [] c = "S" -> "s"
      [] OTHER -> c

LowerChars(s) == [i \in 1..Len(s) |-> LowerChar(s[i])]

\* a Python value and its type
PyValue(type, value) == [type |-> type, value |-> value]

\* a conversion that reads a float signal's text as a float before it
\* looks at the choices
InitialConverted_float_first(initial, initial_int, choices, is_float, factor, offset) ==
    IF is_float /\ PyFloat(Strip(initial)).err # ""
    THEN Fail("ValueError")
    ELSE IF is_float
    THEN Ok(Some(PyValue("float",
                         PyFloat(Strip(initial)).val * factor + offset)))
    ELSE IF /\ choices # None
            /\ initial_int.err = ""
            /\ initial_int.val \in DOMAIN choices[1]
    THEN Ok(Some(PyValue("NamedSignalValue", choices[1][initial_int.val])))
    ELSE IF LowerChars(Strip(initial)) = <<"t", "r", "u", "e">>
    THEN Ok(Some(PyValue("bool", TRUE)))
    ELSE IF LowerChars(Strip(initial)) = <<"f", "a", "l", "s", "e">>
    THEN Ok(Some(PyValue("bool", FALSE)))
    ELSE IF initial_int.err # "" THEN Fail("TypeError")
    ELSE Ok(Some(PyValue("int", initial_int.val * factor + offset)))

\* lines 598-608, given the text and what parse_int_string made of it
InitialConverted(initial, initial_int, choices, is_float, factor, offset) ==
    IF /\ choices # None
       /\ initial_int.err = ""
       /\ initial_int.val \in DOMAIN choices[1]
    THEN Ok(Some(PyValue("NamedSignalValue", choices[1][initial_int.val])))
    ELSE IF is_float /\ PyFloat(Strip(initial)).err # ""
    THEN Fail("ValueError")
    ELSE IF is_float
    THEN Ok(Some(PyValue("float",
                         PyFloat(Strip(initial)).val * factor + offset)))
    ELSE IF LowerChars(Strip(initial)) = <<"t", "r", "u", "e">>
    THEN Ok(Some(PyValue("bool", TRUE)))
    ELSE IF LowerChars(Strip(initial)) = <<"f", "a", "l", "s", "e">>
    THEN Ok(Some(PyValue("bool", FALSE)))
    ELSE IF initial_int.err # "" THEN Fail("TypeError")
    ELSE Ok(Some(PyValue("int", initial_int.val * factor + offset)))

\* lines 589-608
InitialOf(initial, choices, is_float, factor, offset) ==
    IF initial.err # "" THEN initial
    ELSE IF initial.val = None THEN Ok(None)
    ELSE InitialConverted(initial.val[1], parse_int_string(initial.val[1]),
                          choices, is_float, factor, offset)

\* the Signal that _load_signal returns
LoadedSignal(reads, type, properties, initial) ==
    [Signal(reads[1].val, reads[2].val, reads[3].val, properties.choices,
            FALSE) EXCEPT !.initial = initial]
    @@ [byte_order |-> reads[4].val, is_signed |-> type.is_signed,
        is_float |-> type.is_float, scale |-> properties.factor,
        offset |-> properties.offset, minimum |-> properties.minimum,
        maximum |-> properties.maximum, unit |-> properties.unit,
        comment |-> properties.comments]

SignalBuilt(reads, type, properties, initial) ==
    IF initial.err # "" THEN initial
    ELSE Ok(Some(LoadedSignal(reads, type, properties, initial.val)))

\* _load_signal from the initial value on
SignalScaled(doc, maps, v4, i_signal, system_signal, reads, type, properties) ==
    IF properties.err # "" THEN properties
    ELSE SignalBuilt(reads, type, properties.val,
             InitialOf(_load_arxml_init_value_string(doc, maps, v4, i_signal,
                                                     system_signal),
                       properties.val.choices, type.is_float,
                       properties.val.factor, properties.val.offset))

\* _load_signal from the system signal's properties on
SignalTyped(doc, maps, v4, i_signal, system_signal, reads, type) ==
    IF FirstError(Append(reads, type)) # ""
    THEN Fail(FirstError(Append(reads, type)))
    ELSE SignalScaled(doc, maps, v4, i_signal, system_signal, reads, type.val,
             IF system_signal = None
             THEN Ok(Properties(None, None, 1, 0, None, None, None))
             ELSE _load_system_signal(doc, maps, v4, system_signal[1],
                                      type.val.is_float))

\* _load_signal from the name of the signal on; a mapping whose system
\* signal reference leads to another kind of element gives no signal
SignalOfSystemSignal(doc, maps, v4, mapping, i_signal, system_signal) ==
    IF system_signal.err # "" THEN system_signal
    ELSE IF /\ system_signal.val # None
            /\ NodeAt(doc, system_signal.val[1]).tag # "SYSTEM-SIGNAL"
    THEN Ok(None)
    ELSE SignalTyped(doc, maps, v4, i_signal, system_signal.val,
             <<TextOf(doc, Query(doc, maps, Some(i_signal),
                                 <<One("SHORT-NAME")>>)),
               ParsedText(doc, Query(doc, maps, Some(mapping),
                                     <<One("START-POSITION")>>)),
               _load_signal_length(doc, maps, v4, i_signal,
                                   system_signal.val),
               _load_signal_byte_order(doc, maps, mapping)>>,
             _load_signal_type(doc, maps, i_signal))

\* a mapping without an i-signal gives no signal
SignalOfISignal(doc, maps, v4, mapping, i_signal) ==
    IF i_signal.err # "" THEN i_signal
    ELSE IF i_signal.val = None THEN Ok(None)
    ELSE SignalOfSystemSignal(doc, maps, v4, mapping, i_signal.val[1],
             Query(doc, maps, i_signal.val, <<OneRef("SYSTEM-SIGNAL")>>))

_load_signal(doc, maps, v4, i_signal_to_i_pdu_mapping) ==
    SignalOfISignal(doc, maps, v4, i_signal_to_i_pdu_mapping,
                    _get_i_signal(doc, maps, v4, i_signal_to_i_pdu_mapping))

-----------------------------------------------------------------------------
(* SystemLoader._load_pdu_signals, _load_message and load                  *)

\* signals.append(signal) unless the mapping gave none
Appended(signals, signal) ==
    IF signal.err # "" THEN signal
    ELSE IF signal.val = None THEN signals
    ELSE Ok(Append(signals.val, signal.val[1]))

\* the loop over the mappings
RECURSIVE SignalsOf(_, _, _, _, _)
SignalsOf(doc, maps, v4, mappings, signals) ==
    IF signals.err # "" \/ mappings = <<>> THEN signals
    ELSE SignalsOf(doc, maps, v4, Tail(mappings),
                   Appended(signals,
                            _load_signal(doc, maps, v4, Head(mappings))))

SignalsOfMappings(doc, maps, v4, normal, network_management) ==
    IF normal.err # "" THEN normal
    ELSE IF network_management.err # "" THEN network_management
    ELSE SignalsOf(doc, maps, v4, normal.val \o network_management.val,
                   Ok(<<>>))

_load_pdu_signals(doc, maps, v4, pdu) ==
    SignalsOfMappings(doc, maps, v4,
        _get_arxml_children(doc, maps, Some(pdu),
            <<One(IF v4 THEN "I-SIGNAL-TO-PDU-MAPPINGS"
                  ELSE "SIGNAL-TO-PDU-MAPPINGS"),
              ManyRef("I-SIGNAL-TO-I-PDU-MAPPING")>>),
        _get_arxml_children(doc, maps, Some(pdu),
            <<One("I-SIGNAL-TO-I-PDU-MAPPINGS"),
              ManyRef("I-SIGNAL-TO-I-PDU-MAPPING")>>))

-----------------------------------------------------------------------------
(* The PDU of a frame, read from the document                              *)
(*                                                                         *)
(* ReadPdu collects what _load_pdu and _load_pdu_multiplexed_parts read    *)
(* from a PDU element and the PDUs below it; the decomposition above      *)
(* (_load_pdu) then works on what was read.                                *)

TimePeriodLocation(v4) ==
    IF v4
    THEN <<One("I-PDU-TIMING-SPECIFICATIONS"), One("I-PDU-TIMING"),
           One("TRANSMISSION-MODE-DECLARATION"),
           One("TRANSMISSION-MODE-TRUE-TIMING"), One("CYCLIC-TIMING"),
           One("TIME-PERIOD"), One("VALUE")>>
    ELSE <<One("I-PDU-TIMING-SPECIFICATION"), One("CYCLIC-TIMING"),
           One("REPEATING-TIME"), One("VALUE")>>

\* parse_int_string(bit_length.text) unless there is no LENGTH
BitLength(doc, bit_length) ==
    IF bit_length.err # "" THEN bit_length
    ELSE IF bit_length.val = None THEN Ok(None)
    ELSE WrapValue(ParsedText(doc, bit_length))

Milliseconds(seconds) ==
    IF seconds.err # "" THEN seconds ELSE Ok(Some(seconds.val * 1000))

\* int(float(time_period.text) * 1000) unless there is no time period
CycleTime(doc, time_period) ==
    IF time_period.err # "" THEN time_period
    ELSE IF time_period.val = None THEN Ok(None)
    ELSE IF NodeAt(doc, time_period.val[1]).text = None THEN Fail("TypeError")
    ELSE Milliseconds(PyFloat(Strip(NodeAt(doc, time_period.val[1]).text[1])))

DynpartSpec(v4) ==
    IF v4
    THEN <<One("DYNAMIC-PARTS"), Many("DYNAMIC-PART"),
           One("DYNAMIC-PART-ALTERNATIVES"), Many("DYNAMIC-PART-ALTERNATIVE")>>
    ELSE <<One("DYNAMIC-PART"), One("DYNAMIC-PART-ALTERNATIVES"),
           Many("DYNAMIC-PART-ALTERNATIVE")>>

StaticPdusSpec(v4) ==
    IF v4 THEN <<One("STATIC-PARTS"), Many("STATIC-PART"), OneRef("I-PDU")>>
    ELSE <<One("STATIC-PART"), OneRef("I-PDU")>>

\* the assert on the text of SELECTOR-FIELD-BYTE-ORDER
SelectorByteOrder(doc, selector_byte_order) ==
    IF selector_byte_order.err # "" THEN selector_byte_order
    ELSE IF selector_byte_order.val = None THEN Ok("little_endian")
    ELSE IF NodeAt(doc, selector_byte_order.val[1]).text
               = Some(<<"MOST-SIGNIFICANT-BYTE-FIRST">>)
    THEN Ok("big_endian")
    ELSE IF NodeAt(doc, selector_byte_order.val[1]).text
               = Some(<<"MOST-SIGNIFICANT-BYTE-LAST">>)
    THEN Ok("little_endian")
    ELSE Fail("AssertionError")

\* is_initial is not None and is_initial.text == 'true'
IsInitial(doc, is_initial) ==
    IF is_initial.err # "" THEN is_initial
    ELSE Ok(/\ is_initial.val # None
            /\ NodeAt(doc, is_initial.val[1]).text = Some(<<"true">>))

DynaltRead(code, pdu, initial) ==
    IF FirstError(<<code, pdu, initial>>) # ""
    THEN Fail(FirstError(<<code, pdu, initial>>))
    ELSE Ok([code |-> code.val, pdu |-> pdu.val, initial |-> initial.val])

PartRead(parts, part) ==
    IF part.err # "" THEN part ELSE Ok(Append(parts.val, part.val))

MultiplexedRead(sigs, cycle_time, selector, dynalts, statics) ==
    IF FirstError(selector \o <<dynalts, statics>>) # ""
    THEN Fail(FirstError(selector \o <<dynalts, statics>>))
    ELSE Ok([mux |-> TRUE, sigs |-> sigs, cycle_time |-> cycle_time,
             selector_pos |-> selector[1].val,
             selector_len |-> selector[2].val,
             dynalts |-> dynalts.val, statics |-> statics.val])

RECURSIVE ReadPdu(_, _, _, _)
RECURSIVE ReadDynalts(_, _, _, _, _)
RECURSIVE ReadStatics(_, _, _, _, _)
RECURSIVE PduRead(_, _, _, _, _)

\* the alternatives of a multiplexed PDU, in document order
ReadDynalts(doc, maps, v4, dynalts, parts) ==
    IF dynalts.err # "" THEN dynalts
    ELSE IF parts.err # "" \/ dynalts.val = <<>> THEN parts
    ELSE ReadDynalts(doc, maps, v4, Ok(Tail(dynalts.val)),
             PartRead(parts,
                 DynaltRead(
                     ParsedText(doc, Query(doc, maps, Some(Head(dynalts.val)),
                                           <<One("SELECTOR-FIELD-CODE")>>)),
                     ReadPdu(doc, maps, v4,
                             Query(doc, maps, Some(Head(dynalts.val)),
                                   <<OneRef("I-PDU")>>)),
                     IsInitial(doc, Query(doc, maps, Some(Head(dynalts.val)),
                                          <<One("INITIAL-DYNAMIC-PART")>>)))))

\* the PDUs of the static parts, in document order
ReadStatics(doc, maps, v4, static_pdus, parts) ==
    IF static_pdus.err # "" THEN static_pdus
    ELSE IF parts.err # "" \/ static_pdus.val = <<>> THEN parts
    ELSE ReadStatics(doc, maps, v4, Ok(Tail(static_pdus.val)),
             PartRead(parts, ReadPdu(doc, maps, v4,
                                     Ok(Some(Head(static_pdus.val))))))

\* what _load_pdu does once LENGTH, the time period and the signals are read
PduRead(doc, maps, v4, pdu, reads) ==
    IF FirstError(reads) # "" THEN Fail(FirstError(reads))
    ELSE IF NodeAt(doc, pdu).tag # "MULTIPLEXED-I-PDU"
    THEN Ok([mux |-> FALSE, sigs |-> reads[3].val,
             cycle_time |-> reads[2].val])
    ELSE MultiplexedRead(reads[3].val, reads[2].val,
             <<ParsedText(doc, Query(doc, maps, Some(pdu),
                              <<One("SELECTOR-FIELD-START-POSITION")>>)),
               ParsedText(doc, Query(doc, maps, Some(pdu),
                              <<One("SELECTOR-FIELD-LENGTH")>>)),
               SelectorByteOrder(doc, Query(doc, maps, Some(pdu),
                              <<One("SELECTOR-FIELD-BYTE-ORDER")>>))>>,
             ReadDynalts(doc, maps, v4,
                 _get_arxml_children(doc, maps, Some(pdu), DynpartSpec(v4)),
                 Ok(<<>>)),
             ReadStatics(doc, maps, v4,
                 _get_arxml_children(doc, maps, Some(pdu), StaticPdusSpec(v4)),
                 Ok(<<>>)))

\* pdu is what a query for the PDU returned
ReadPdu(doc, maps, v4, pdu) ==
    IF pdu.err # "" THEN pdu
    ELSE IF pdu.val = None THEN Fail("child of a non-existing node")
    ELSE PduRead(doc, maps, v4, pdu.val[1],
             <<BitLength(doc, Query(doc, maps, pdu.val, <<One("LENGTH")>>)),
               CycleTime(doc, Query(doc, maps, pdu.val,
                                    TimePeriodLocation(v4))),
               _load_pdu_signals(doc, maps, v4, pdu.val[1])>>)

\* the first node of a result list, however many there are
AnyOf(tmp) ==
    IF tmp.err # "" THEN tmp
    ELSE IF Len(tmp.val) = 0 THEN Ok(None)
    ELSE Ok(Some(tmp.val[1]))

\* a lookup that picks the first PDU a frame maps
_get_pdu_first(doc, maps, can_frame) ==
    AnyOf(_get_arxml_children(doc, maps, Some(can_frame),
                              <<One("PDU-TO-FRAME-MAPPINGS"),
                                ManyRef("PDU-TO-FRAME-MAPPING"),
                                ManyRef("PDU")>>))

_get_pdu(doc, maps, can_frame) ==
    Query(doc, maps, Some(can_frame),
          <<One("PDU-TO-FRAME-MAPPINGS"), OneRef("PDU-TO-FRAME-MAPPING"),
            OneRef("PDU")>>)

-----------------------------------------------------------------------------
(* SystemLoader._load_message, _load_package_contents and load             *)

\* a text as the string it is in the code
RECURSIVE Joined(_)
Joined(parts) ==
    IF Len(parts) = 1 THEN parts[1]
    ELSE parts[1] \o "/" \o Joined(Tail(parts))

\* can_addressing_mode.text == 'EXTENDED', False without the element
IsExtendedFrame(doc, can_addressing_mode) ==
    IF can_addressing_mode.err # "" THEN can_addressing_mode
    ELSE Ok(/\ can_addressing_mode.val # None
            /\ NodeAt(doc, can_addressing_mode.val[1]).text
                  = Some(<<"EXTENDED">>))

\* the Message constructor: the fields the loader passes
Message(reads, cycle_time, signals) ==
    [name |-> reads[1].val, frame_id |-> reads[2].val,
     length |-> reads[3].val, is_extended_frame |-> reads[4].val,
     comment |-> reads[5].val, cycle_time |-> cycle_time,
     signals |-> signals]

MessageLoaded(reads, pdu, loaded) ==
    IF loaded.err # "" THEN Fail(loaded.err)
    ELSE Ok(Message(reads, pdu.cycle_time, loaded.signals))

\* self._load_pdu(pdu, name, 1) of the PDU that was read
MessageOfPduRead(reads, pdu) ==
    IF pdu.err # "" THEN pdu
    ELSE MessageLoaded(reads, pdu.val,
                       _load_pdu(pdu.val, Joined(Str(reads[1].val)), 1))

\* assert pdu is not None
MessageOfPdu(doc, maps, v4, reads, pdu) ==
    IF FirstError(reads) # "" THEN Fail(FirstError(reads))
    ELSE IF pdu.err # "" THEN pdu
    ELSE IF pdu.val = None THEN Fail("AssertionError")
    ELSE MessageOfPduRead(reads, ReadPdu(doc, maps, v4, pdu))

\* _load_message once the frame of the triggering is known
MessageOfFrame(doc, maps, v4, can_frame_triggering, can_frame) ==
    IF can_frame.err # "" THEN can_frame
    ELSE IF can_frame.val = None THEN Fail("child of a non-existing node")
    ELSE MessageOfPdu(doc, maps, v4,
             <<TextOf(doc, Query(doc, maps, can_frame.val,
                                 <<One("SHORT-NAME")>>)),
               ParsedText(doc, Query(doc, maps, Some(can_frame_triggering),
                                     <<One("IDENTIFIER")>>)),
               ParsedText(doc, Query(doc, maps, can_frame.val,
                                     <<One("FRAME-LENGTH")>>)),
               IsExtendedFrame(doc, Query(doc, maps,
                                          Some(can_frame_triggering),
                                          <<One("CAN-ADDRESSING-MODE")>>)),
               _load_comments(doc, maps, can_frame.val[1])>>,
             _get_pdu(doc, maps, can_frame.val[1]))

_get_can_frame(doc, maps, can_frame_triggering) ==
    Query(doc, maps, Some(can_frame_triggering), <<OneRef("FRAME")>>)

_load_message(doc, maps, v4, can_frame_triggering) ==
    MessageOfFrame(doc, maps, v4, can_frame_triggering,
                   _get_can_frame(doc, maps, can_frame_triggering))

FrameTriggeringsSpec(v4) ==
    IF v4
    THEN <<One("ELEMENTS"), ManyRef("CAN-CLUSTER"),
           One("CAN-CLUSTER-VARIANTS"), ManyRef("CAN-CLUSTER-CONDITIONAL"),
           One("PHYSICAL-CHANNELS"), ManyRef("CAN-PHYSICAL-CHANNEL"),
           One("FRAME-TRIGGERINGS"), ManyRef("CAN-FRAME-TRIGGERING")>>
    ELSE <<One("ELEMENTS"), ManyRef("CAN-CLUSTER"),
           One("PHYSICAL-CHANNELS"), ManyRef("PHYSICAL-CHANNEL"),
           One("FRAME-TRIGGERINGSS"), ManyRef("CAN-FRAME-TRIGGERING")>>

\* messages.append(self._load_message(can_frame_triggering))
MessageAppended(messages, message) ==
    IF message.err # "" THEN message
    ELSE Ok(Append(messages.val, message.val))

\* the loop over the frame triggerings of a package
RECURSIVE MessagesOf(_, _, _, _, _)
MessagesOf(doc, maps, v4, can_frame_triggerings, messages) ==
    IF can_frame_triggerings.err # "" THEN can_frame_triggerings
    ELSE IF messages.err # "" \/ can_frame_triggerings.val = <<>>
    THEN messages
    ELSE MessagesOf(doc, maps, v4, Ok(Tail(can_frame_triggerings.val)),
             MessageAppended(messages,
                 _load_message(doc, maps, v4,
                               Head(can_frame_triggerings.val))))

\* messages is the list of the load so far, or the exception that ended it
_load_package_contents(doc, maps, v4, package_elem, messages) ==
    IF messages.err # "" THEN messages
    ELSE MessagesOf(doc, maps, v4,
                    _get_arxml_children(doc, maps, Some(package_elem),
                                        FrameTriggeringsSpec(v4)),
                    messages)

\* package_list.iterfind('./ns:AR-PACKAGE'): the positions of the packages
\* of a package list, in document order
PackagesOf(doc, package_list) ==
    SelectSeq([i \in 1..Len(NodeAt(doc, package_list).kids) |->
                  Append(package_list, i)],
              LAMBDA pos : NodeAt(doc, pos).tag = "AR-PACKAGE")

\* package.find of the list of the sub-packages
SubPackageList(doc, v4, package) ==
    Find(doc, package, IF v4 THEN "AR-PACKAGES" ELSE "SUB-PACKAGES")

\* a traversal that handles the packages of a list before the sub-packages
\* of any of them
RECURSIVE HandlePackages_breadth_first(_, _, _, _, _)
HandlePackages_breadth_first(doc, maps, v4, packages, messages) ==
    IF messages.err # "" \/ packages = <<>> THEN messages
    ELSE HandlePackages_breadth_first(doc, maps, v4,
             Tail(packages)
             \o (IF SubPackageList(doc, v4, Head(packages)) = None THEN <<>>
                 ELSE PackagesOf(doc, SubPackageList(doc, v4,
                                                     Head(packages))[1])),
             _load_package_contents(doc, maps, v4, Head(packages), messages))

\* handle_package_list over the packages that are still to be handled: a
\* package, then its sub-packages, then the packages after it
RECURSIVE HandlePackages(_, _, _, _, _)
HandlePackages(doc, maps, v4, packages, messages) ==
    IF messages.err # "" \/ packages = <<>> THEN messages
    ELSE HandlePackages(doc, maps, v4,
             (IF SubPackageList(doc, v4, Head(packages)) = None THEN <<>>
              ELSE PackagesOf(doc, SubPackageList(doc, v4,
                                                  Head(packages))[1]))
             \o Tail(packages),
             _load_package_contents(doc, maps, v4, Head(packages), messages))

\* package_list is None when the root has no list of packages
handle_package_list(doc, maps, v4, package_list) ==
    IF package_list = None THEN Fail("AttributeError")
    ELSE HandlePackages(doc, maps, v4, PackagesOf(doc, package_list[1]),
                        Ok(<<>>))

\* the messages of the database load returns, or the exception it raises
load(doc, maps, v4) ==
    handle_package_list(doc, maps, v4,
        Find(doc, <<>>, IF v4 THEN "AR-PACKAGES" ELSE "TOP-LEVEL-PACKAGES"))

-----------------------------------------------------------------------------
(* System descriptions with two frames                                     *)
(*                                                                         *)
(* The package /p holds a default reference base, a CAN cluster with one   *)
(* frame triggering and the elements of two frames; its sub-package /p/q   *)
(* holds a second cluster with the other frame triggering.  Each frame has *)
(* one PDU, one signal mapping, one i-signal, one system signal and one    *)
(* constant for the initial value.  Every reference of a frame is of one  *)
(* of these kinds.                                                         *)

RefKinds == {"absolute", "relative", "nowhere", "other DEST"}

\* a <tag>-REF element to the element /p/<names> with the tag dest
RefTo(kind, tag, dest, names) ==
    Reference(tag \o "-REF",
              CASE kind = "absolute" -> <<"", "p">> \o names
                [] kind = "relative" -> names
                [] kind = "nowhere" -> <<"", "p", "nowhere">>
                [] kind = "other DEST" -> <<"", "p">> \o names,
              IF kind = "other DEST" THEN Some("AR-PACKAGE") ELSE Some(dest),
              None)

\* the name of an element of the n-th frame
Nth(name, n) == name \o ToString(n)

NamedElement(tag, name, kids) ==
    Element(tag, None, <<Leaf("SHORT-NAME", <<name>>)>> \o kids)

FrameTriggering(v4, n, refs) ==
    NamedElement("CAN-FRAME-TRIGGERING", Nth("ft", n),
          <<Leaf("IDENTIFIER", <<ToString(n)>>),
            RefTo(refs.frame, "FRAME", IF v4 THEN "CAN-FRAME" ELSE "FRAME",
                  <<Nth("f", n)>>)>>)

Frame(v4, n, refs) ==
    NamedElement(IF v4 THEN "CAN-FRAME" ELSE "FRAME", Nth("f", n),
          <<Leaf("FRAME-LENGTH", <<"8">>),
            Element("PDU-TO-FRAME-MAPPINGS", None,
              <<NamedElement("PDU-TO-FRAME-MAPPING", Nth("m", n),
                  <<RefTo(refs.pdu, "PDU",
                          IF v4 THEN "I-SIGNAL-I-PDU" ELSE "SIGNAL-I-PDU",
                          <<Nth("pdu", n)>>)>>)>>)>>)

Pdu(v4, n, refs) ==
    NamedElement(IF v4 THEN "I-SIGNAL-I-PDU" ELSE "SIGNAL-I-PDU", Nth("pdu", n),
          <<Element(IF v4 THEN "I-SIGNAL-TO-PDU-MAPPINGS"
                    ELSE "SIGNAL-TO-PDU-MAPPINGS", None,
              <<NamedElement("I-SIGNAL-TO-I-PDU-MAPPING", Nth("sm", n),
                  <<Leaf("START-POSITION", <<"0">>),
                    RefTo(refs.signal, IF v4 THEN "I-SIGNAL" ELSE "SIGNAL",
                          "I-SIGNAL", <<Nth("is", n)>>)>>)>>)>>)

ISignal(v4, n, refs) ==
    NamedElement("I-SIGNAL", Nth("is", n),
          <<Leaf("LENGTH", <<"1">>),
            RefTo(refs.system_signal, "SYSTEM-SIGNAL", "SYSTEM-SIGNAL",
                  <<Nth("s", n)>>)>>
          \o IF v4
             THEN <<Element("INIT-VALUE", None,
                      <<Element("CONSTANT-REFERENCE", None,
                          <<RefTo(refs.init_value, "CONSTANT",
                                  "CONSTANT-SPECIFICATION",
                                  <<Nth("c", n)>>)>>)>>)>>
             ELSE <<>>)

FrameSystemSignal(v4, n, refs) ==
    NamedElement("SYSTEM-SIGNAL", Nth("s", n),
          IF v4 THEN <<>>
          ELSE <<RefTo(refs.init_value, "INIT-VALUE", "INTEGER-LITERAL",
                       <<Nth("c", n), "v">>)>>)

ConstantSpecification(v4, n) ==
    NamedElement("CONSTANT-SPECIFICATION", Nth("c", n),
          IF v4
          THEN <<Element("VALUE-SPEC", None,
                   <<Element("NUMERICAL-VALUE-SPECIFICATION", None,
                       <<Leaf("VALUE", <<"1">>)>>)>>)>>
          ELSE <<Element("VALUE", None,
                   <<NamedElement("INTEGER-LITERAL", "v",
                           <<Leaf("VALUE", <<"1">>)>>)>>)>>)

\* the elements of the n-th frame, without its frame triggering
FrameElements(v4, n, refs) ==
    <<Frame(v4, n, refs), Pdu(v4, n, refs), ISignal(v4, n, refs),
      FrameSystemSignal(v4, n, refs), ConstantSpecification(v4, n)>>

\* a CAN cluster with one frame triggering
CanCluster(v4, name, can_frame_triggering) ==
    NamedElement("CAN-CLUSTER", name,
      IF v4
      THEN <<Element("CAN-CLUSTER-VARIANTS", None,
               <<Element("CAN-CLUSTER-CONDITIONAL", None,
                   <<Element("PHYSICAL-CHANNELS", None,
                       <<NamedElement("CAN-PHYSICAL-CHANNEL", "ch",
                           <<Element("FRAME-TRIGGERINGS", None,
                               <<can_frame_triggering>>)>>)>>)>>)>>)>>
      ELSE <<Element("PHYSICAL-CHANNELS", None,
               <<NamedElement("PHYSICAL-CHANNEL", "ch",
                   <<Element("FRAME-TRIGGERINGSS", None,
                       <<can_frame_triggering>>)>>)>>)>>)

DefaultReferenceBase ==
    Element("REFERENCE-BASE", None,
            <<Leaf("SHORT-LABEL", <<"x">>), Leaf("IS-DEFAULT", <<"true">>),
              Leaf("PACKAGE-REF", <<"", "p">>)>>)

\* the frame whose triggering is in /p is the frame `outer`, the one whose
\* triggering is in /p/q the frame `inner`
SystemDocument(v4, outer, inner, refs) ==
    Element("AUTOSAR", None,
      <<Element(IF v4 THEN "AR-PACKAGES" ELSE "TOP-LEVEL-PACKAGES", None,
          <<NamedElement("AR-PACKAGE", "p",
              <<Element("REFERENCE-BASES", None, <<DefaultReferenceBase>>),
                Element("ELEMENTS", None,
                    <<CanCluster(v4, "cl",
                                 FrameTriggering(v4, outer, refs[outer]))>>
                    \o FrameElements(v4, 1, refs[1])
                    \o FrameElements(v4, 2, refs[2])),
                Element(IF v4 THEN "AR-PACKAGES" ELSE "SUB-PACKAGES", None,
                    <<NamedElement("AR-PACKAGE", "q",
                        <<Element("ELEMENTS", None,
                            <<CanCluster(v4, "cl",
                                FrameTriggering(v4, inner,
                                                refs[inner]))>>)>>)>>)>>)>>)>>)

\* the references of a frame
FrameRefs(kinds) ==
    [frame : kinds, pdu : kinds, signal : kinds, system_signal : kinds,
     init_value : kinds]

LeadingRefs ==
    [frame |-> "absolute", pdu |-> "absolute", signal |-> "absolute",
     system_signal |-> "absolute", init_value |-> "absolute"]

\* the first frame with references that lead to their elements, the second
\* with references of any kind
SystemDocuments(v4, kinds) ==
    {SystemDocument(v4, outer, 3 - outer, <<LeadingRefs, refs>>) :
        outer \in 1..2, refs \in FrameRefs(kinds)}

-----------------------------------------------------------------------------
(* SystemLoader(root, strict).load() on a system description               *)

LdInit ==
    /\ autosar_version_major \in {3, 4}
    /\ autosar_version_minor = 0
    /\ autosar_version_patch = 0
    /\ ver_query = None
    /\ ver_result = None
    /\ load_doc = None
    /\ load_state = "ready"
    /\ load_messages = <<>>
    /\ load_error = ""

\* what the caller of load gets: the messages of the database, or the
\* exception
LoadReturning(result) ==
    /\ load_state' = IF result.err # "" THEN "aborted" ELSE "done"
    /\ load_error' = result.err
    /\ load_messages' = IF result.err # "" THEN <<>> ELSE result.val

\* the constructor builds the reference index, load reads the packages
ConstructedAndLoaded(doc, index) ==
    /\ load_doc' = Some(doc)
    /\ LoadReturning(IF index.err # "" THEN Fail(index.err)
                     ELSE load(doc, index.maps,
                               autosar_version_newer(4, None, None)))
    /\ UNCHANGED <<verVars, msgVars, idxVars, ttVars, ecuVars,
                 qryVars, logVars>>

LoadSystem ==
    /\ load_state = "ready"
    /\ \E doc \in SystemDocuments(autosar_version_newer(4, None, None),
                                  RefKinds) :
          ConstructedAndLoaded(doc, _create_arxml_reference_dicts(doc))

LdNext == LoadSystem

LoadInit ==
    LdInit /\ MsgIdle /\ IdxIdle /\ TtIdle /\ EcuIdle /\ QryIdle /\ LogIdle

SpecLoad == LoadInit /\ [][LdNext]_vars

-----------------------------------------------------------------------------
(* Properties of a load                                                    *)

\* the reference elements the loader follows
FollowedRefTags ==
    {"FRAME-REF", "PDU-REF", "SIGNAL-REF", "I-SIGNAL-REF",
     "SYSTEM-SIGNAL-REF", "CONSTANT-REF", "INIT-VALUE-REF"}

\* a reference element that does not lead to a node of its DEST
LeadsNowhere(doc, maps, ref_elem, followed) ==
    followed.err # "" \/ followed.val = None

\* the followed reference elements of a document that lead nowhere
UnresolvedRefs(doc, maps) ==
    {pos \in Positions(doc) :
        /\ NodeAt(doc, pos).tag \in FollowedRefTags
        /\ LeadsNowhere(doc, maps, pos,
               _follow_arxml_reference(doc, maps, Parent(pos),
                                       NodeAt(doc, pos).text[1],
                                       NodeAt(doc, pos).dest,
                                       NodeAt(doc, pos).base))}

\* the document of the load has a reference that leads nowhere
HasUnresolvedRef ==
    /\ load_doc # None
    /\ UnresolvedRefs(load_doc[1],
                      _create_arxml_reference_dicts(load_doc[1]).maps) # {}

\* C5: a load of a document in which a followed *-REF element cannot be
\* resolved to a node aborts with a dangling-reference error and returns no
\* message list.  The documents are built so that a load that is not
\* aborted follows every reference element of FollowedRefTags.
C5_DanglingReferenceAborts ==
    HasUnresolvedRef =>
        /\ load_state = "aborted"
        /\ load_error = "dangling reference"
        /\ load_messages = <<>>

-----------------------------------------------------------------------------
(* EcuExtractLoader: the navigation by fixed paths                         *)
(*                                                                         *)
(* A location path is a list of steps; a step selects the children with a  *)
(* tag and, for a step with a predicate [ns:SHORT-NAME='name'], those of   *)
(* them that have a SHORT-NAME child with that text.  The text of a        *)
(* DEFINITION-REF, VALUE-REF or ECUC-MODULE-CONFIGURATION-VALUES-REF is    *)
(* the list str.split('/') makes of it; the text of a VALUE is the list of *)
(* the characters of a number, or a word as one item.                      *)

Step(tag) == [tag |-> tag, short_name |-> None]
NamedStep(tag, name) == [tag |-> tag, short_name |-> Some(name)]

StepMatches(doc, pos, step) ==
    /\ NodeAt(doc, pos).tag = step.tag
    /\ \/ step.short_name = None
       \/ \E i \in 1..Len(NodeAt(doc, pos).kids) :
             /\ NodeAt(doc, pos).kids[i].tag = "SHORT-NAME"
             /\ NodeAt(doc, pos).kids[i].text = Some(<<step.short_name[1]>>)

\* the children of the elements that a step selects, in document order
RECURSIVE StepFrom(_, _, _)
StepFrom(doc, elems, step) ==
    IF elems = <<>> THEN <<>>
    ELSE SelectSeq(ChildrenOf(doc, Head(elems)),
                   LAMBDA child : StepMatches(doc, child, step))
         \o StepFrom(doc, Tail(elems), step)

\* elem.iterfind(path)
RECURSIVE IterFind(_, _, _)
IterFind(doc, elems, path) ==
    IF path = <<>> THEN elems
    ELSE IterFind(doc, StepFrom(doc, elems, Head(path)), Tail(path))

FirstOf(elems) == IF elems = <<>> THEN None ELSE Some(elems[1])

\* elem.find(path)
XFind(doc, elem, path) == FirstOf(IterFind(doc, <<elem>>, path))

\* elem.find(path).text
XFindText(doc, elem, path) ==
    IF XFind(doc, elem, path) = None THEN Fail("AttributeError")
    ELSE Ok(NodeAt(doc, XFind(doc, elem, path)[1]).text)

\* text.endswith(suffix) for a suffix without a slash: the segments of the
\* documents end with such a suffix only when they are the suffix
EndsWith(text, suffix) == text[Len(text)] = suffix

\* text.endswith('/' + suffix)
EndsWithSegment(text, suffix) == Len(text) >= 2 /\ text[Len(text)] = suffix

ECUC_VALUE_COLLECTION_XPATH ==
    <<Step("AR-PACKAGES"), Step("AR-PACKAGE"), Step("ELEMENTS"),
      Step("ECUC-VALUE-COLLECTION")>>

ECUC_MODULE_CONFIGURATION_VALUES_REF_XPATH ==
    <<Step("ECUC-VALUES"),
      Step("ECUC-MODULE-CONFIGURATION-VALUES-REF-CONDITIONAL"),
      Step("ECUC-MODULE-CONFIGURATION-VALUES-REF")>>

ECUC_REFERENCE_VALUE_XPATH ==
    <<Step("REFERENCE-VALUES"), Step("ECUC-REFERENCE-VALUE")>>

\* the path to the SUB-CONTAINERS of a container of a module
SubContainersPath(package, module, container) ==
    <<Step("AR-PACKAGES"), NamedStep("AR-PACKAGE", package),
      Step("ELEMENTS"),
      NamedStep("ECUC-MODULE-CONFIGURATION-VALUES", module),
      Step("CONTAINERS"), NamedStep("ECUC-CONTAINER-VALUE", container),
      Step("SUB-CONTAINERS")>>

\* xpath.split('/')[1] is the second item of the list
find_com_config(doc, xpath) ==
    XFind(doc, <<>>, SubContainersPath(xpath[2], "Com", "ComConfig"))

find_value(doc, xpath) ==
    XFind(doc, <<>>,
          Append(SubContainersPath(xpath[2], "Com", "ComConfig"),
                 NamedStep("ECUC-CONTAINER-VALUE", xpath[Len(xpath)])))

\* one item of iter_parameter_values or iter_reference_values: the last
\* segment of the DEFINITION-REF and the text of the value
ValueItem(definition_ref, value) ==
    IF definition_ref.err # "" THEN definition_ref
    ELSE IF definition_ref.val = None THEN Fail("AttributeError")
    ELSE IF value.err # "" THEN value
    ELSE Ok([name |-> definition_ref.val[1][Len(definition_ref.val[1])],
             value |-> value.val])

\* the generator is consumed item by item: an item after the one at which
\* the caller breaks is never made
RECURSIVE ItemsUntil(_, _, _, _, _)
ItemsUntil(doc, elems, value_tag, stop, items) ==
    IF items.err # "" \/ elems = <<>> THEN items
    ELSE IF items.val # <<>> /\ items.val[Len(items.val)].name = stop
    THEN items
    ELSE ItemsUntil(doc, Tail(elems), value_tag, stop,
             PartRead(items,
                 ValueItem(XFindText(doc, Head(elems),
                                     <<Step("DEFINITION-REF")>>),
                           XFindText(doc, Head(elems),
                                     <<Step(value_tag)>>))))

ItemsOf(doc, list, list_tag, value_tag, stop) ==
    IF list = None
    THEN Fail(list_tag \o " does not exist")
    ELSE ItemsUntil(doc, ChildrenOf(doc, list[1]), value_tag, stop, Ok(<<>>))

\* the items a loop over iter_parameter_values takes, up to the one named
\* stop at which it breaks ("" for a loop without a break)
iter_parameter_values(doc, param_conf_container, stop) ==
    ItemsOf(doc, XFind(doc, param_conf_container,
                       <<Step("PARAMETER-VALUES")>>),
            "PARAMETER-VALUES", "VALUE", stop)

iter_reference_values(doc, param_conf_container, stop) ==
    ItemsOf(doc, XFind(doc, param_conf_container,
                       <<Step("REFERENCE-VALUES")>>),
            "REFERENCE-VALUES", "VALUE-REF", stop)

\* the value of the last item with a name, None without such an item
RECURSIVE LastValue(_, _, _)
LastValue(items, name, value) ==
    IF items = <<>> THEN value
    ELSE LastValue(Tail(items), name,
                   IF Head(items).name = name THEN Some(Head(items).value)
                   ELSE value)

-----------------------------------------------------------------------------
(* EcuExtractLoader.load_message and load                                  *)

\* int(value) of the text of a VALUE: a decimal number with an optional
\* sign, blanks around it ignored
PyIntDecimal(s) ==
    IF s # <<>> /\ s[1] = "-" THEN Negated(Magnitude(Tail(s), 10))
    ELSE IF s # <<>> /\ s[1] = "+" THEN Magnitude(Tail(s), 10)
    ELSE Magnitude(s, 10)

IntOf(value) ==
    IF value = None THEN Fail("TypeError")
    ELSE WrapValue(PyIntDecimal(Strip(value[1])))

\* whether a container of CanIfInitCfg has the reference to the PDU; the
\* loop over its references ends at the first one that is
RECURSIVE RefersTo(_, _, _, _)
RefersTo(doc, references, expected_reference, com_pdu_id_ref) ==
    IF references = <<>> THEN Ok(FALSE)
    ELSE IF ValueItem(XFindText(doc, Head(references),
                                <<Step("DEFINITION-REF")>>),
                      XFindText(doc, Head(references),
                                <<Step("VALUE-REF")>>)).err # ""
    THEN Fail("AttributeError")
    ELSE IF ValueItem(XFindText(doc, Head(references),
                                <<Step("DEFINITION-REF")>>),
                      XFindText(doc, Head(references),
                                <<Step("VALUE-REF")>>)).val
            = [name |-> expected_reference, value |-> Some(com_pdu_id_ref)]
    THEN Ok(TRUE)
    ELSE RefersTo(doc, Tail(references), expected_reference, com_pdu_id_ref)

\* the body of the loop of find_can_if_rx_tx_pdu_cfg for one container
IsCfgOf(doc, message, definition_ref, com_pdu_id_ref) ==
    IF definition_ref.err # "" THEN definition_ref
    ELSE IF definition_ref.val = None THEN Fail("AttributeError")
    ELSE IF ~ \/ EndsWith(definition_ref.val[1], "CanIfTxPduCfg")
              \/ EndsWith(definition_ref.val[1], "CanIfRxPduCfg")
    THEN Ok(FALSE)
    ELSE IF XFind(doc, message, <<Step("REFERENCE-VALUES")>>) = None
    THEN Fail("REFERENCE-VALUES does not exist")
    ELSE RefersTo(doc,
             ChildrenOf(doc, XFind(doc, message,
                                   <<Step("REFERENCE-VALUES")>>)[1]),
             IF EndsWith(definition_ref.val[1], "CanIfTxPduCfg")
             THEN "CanIfTxPduRef" ELSE "CanIfRxPduRef",
             com_pdu_id_ref)

\* the first container that refers to the PDU, None when there is none
RECURSIVE FirstCfgOf(_, _, _)

CfgChosen(doc, messages, com_pdu_id_ref, is_cfg) ==
    IF is_cfg.err # "" THEN is_cfg
    ELSE IF is_cfg.val THEN Ok(Some(Head(messages)))
    ELSE FirstCfgOf(doc, Tail(messages), com_pdu_id_ref)

FirstCfgOf(doc, messages, com_pdu_id_ref) ==
    IF messages = <<>> THEN Ok(None)
    ELSE CfgChosen(doc, messages, com_pdu_id_ref,
             IsCfgOf(doc, Head(messages),
                     XFindText(doc, Head(messages),
                               <<Step("DEFINITION-REF")>>),
                     com_pdu_id_ref))

\* com_pdu_id_ref.split('/')[1] needs a second item
find_can_if_rx_tx_pdu_cfg(doc, com_pdu_id_ref) ==
    IF Len(com_pdu_id_ref) < 2 THEN Fail("IndexError")
    ELSE FirstCfgOf(doc,
             IterFind(doc, <<<<>>>>,
                 Append(SubContainersPath(com_pdu_id_ref[2], "CanIf",
                                          "CanIfInitCfg"),
                        Step("ECUC-CONTAINER-VALUE"))),
             com_pdu_id_ref)

\* frame_id, length and is_extended_frame of load_message_rx_tx
NoFrame == [frame_id |-> None, length |-> None, is_extended_frame |-> None]

\* the body of the loop over the parameters of the container
FrameParameter(frame, item, parameter_can_id, parameter_dlc, parameter_can_id_type) ==
    IF frame.err # "" THEN frame
    ELSE IF item.name = parameter_can_id
    THEN IF IntOf(item.value).err # "" THEN IntOf(item.value)
         ELSE Ok([frame.val EXCEPT !.frame_id = IntOf(item.value).val])
    ELSE IF item.name = parameter_dlc
    THEN IF IntOf(item.value).err # "" THEN IntOf(item.value)
         ELSE Ok([frame.val EXCEPT !.length = IntOf(item.value).val])
    ELSE IF item.name = parameter_can_id_type
    THEN Ok([frame.val EXCEPT
                !.is_extended_frame = Some(item.value
                                           = Some(<<"EXTENDED_CAN">>))])
    ELSE frame

RECURSIVE FrameOfItems(_, _, _, _, _)
FrameOfItems(items, frame, parameter_can_id, parameter_dlc, parameter_can_id_type) ==
    IF items = <<>> THEN frame
    ELSE FrameOfItems(Tail(items),
             FrameParameter(frame, Head(items), parameter_can_id,
                            parameter_dlc, parameter_can_id_type),
             parameter_can_id, parameter_dlc, parameter_can_id_type)

FrameOfCfg(doc, can_if_tx_pdu_cfg, parameter_can_id, parameter_dlc, parameter_can_id_type) ==
    IF can_if_tx_pdu_cfg.err # "" THEN can_if_tx_pdu_cfg
    ELSE IF can_if_tx_pdu_cfg.val = None THEN Ok(NoFrame)
    ELSE IF iter_parameter_values(doc, can_if_tx_pdu_cfg.val[1], "").err # ""
    THEN iter_parameter_values(doc, can_if_tx_pdu_cfg.val[1], "")
    ELSE FrameOfItems(
             iter_parameter_values(doc, can_if_tx_pdu_cfg.val[1], "").val,
             Ok(NoFrame), parameter_can_id, parameter_dlc,
             parameter_can_id_type)

load_message_rx_tx(doc, com_pdu_id_ref, parameter_can_id, parameter_dlc, parameter_can_id_type) ==
    FrameOfCfg(doc, find_can_if_rx_tx_pdu_cfg(doc, com_pdu_id_ref),
               parameter_can_id, parameter_dlc, parameter_can_id_type)

load_message_tx(doc, com_pdu_id_ref) ==
    load_message_rx_tx(doc, com_pdu_id_ref, "CanIfTxPduCanId",
                       "CanIfTxPduDlc", "CanIfTxPduCanIdType")

load_message_rx(doc, com_pdu_id_ref) ==
    load_message_rx_tx(doc, com_pdu_id_ref, "CanIfRxPduCanId",
                       "CanIfRxPduDlc", "CanIfRxPduCanIdType")

\* value.lower() of the endianness values that occur in the documents
LowerWord(value) ==
    IF value = Some(<<"BIG_ENDIAN">>) THEN Ok("big_endian")
    ELSE IF value = Some(<<"LITTLE_ENDIAN">>) THEN Ok("little_endian")
    ELSE IF value = None THEN Fail("AttributeError")
    ELSE Ok(value[1][1])

\* bit position, length, byte order, is_signed and is_float of load_signal
NoSignal ==
    [bit_position |-> None, length |-> None, byte_order |-> None,
     is_signed |-> FALSE, is_float |-> FALSE]

\* the body of the loop over the parameters of the signal's container
SignalParameter(signal, item) ==
    IF signal.err # "" THEN signal
    ELSE IF item.name = "ComBitPosition"
    THEN IF IntOf(item.value).err # "" THEN IntOf(item.value)
         ELSE Ok([signal.val EXCEPT !.bit_position = IntOf(item.value).val])
    ELSE IF item.name = "ComBitSize"
    THEN IF IntOf(item.value).err # "" THEN IntOf(item.value)
         ELSE Ok([signal.val EXCEPT !.length = IntOf(item.value).val])
    ELSE IF item.name = "ComSignalEndianness"
    THEN IF LowerWord(item.value).err # "" THEN LowerWord(item.value)
         ELSE Ok([signal.val EXCEPT
                     !.byte_order = Some(LowerWord(item.value).val)])
    ELSE IF item.name # "ComSignalType" THEN signal
    ELSE IF item.value \in {Some(<<"SINT8">>), Some(<<"SINT16">>),
                            Some(<<"SINT32">>)}
    THEN Ok([signal.val EXCEPT !.is_signed = TRUE])
    ELSE IF item.value \in {Some(<<"FLOAT32">>), Some(<<"FLOAT64">>)}
    THEN Ok([signal.val EXCEPT !.is_float = TRUE])
    ELSE signal

RECURSIVE SignalOfItems(_, _)
SignalOfItems(items, signal) ==
    IF items = <<>> THEN signal
    ELSE SignalOfItems(Tail(items), SignalParameter(signal, Head(items)))

\* a signal without bit position, length or byte order is left out
EcuSignal(name, signal) ==
    IF name.err # "" THEN name
    ELSE IF signal.err # "" THEN signal
    ELSE IF \/ signal.val.bit_position = None
            \/ signal.val.length = None
            \/ signal.val.byte_order = None
    THEN Ok(None)
    ELSE Ok(Some(LoadedSignal(<<name, Ok(signal.val.bit_position[1]),
                                Ok(signal.val.length[1]),
                                Ok(signal.val.byte_order[1])>>,
                              [is_signed |-> signal.val.is_signed,
                               is_float |-> signal.val.is_float],
                              Properties(None, None, 1, 0, None, None, None),
                              None)))

SignalOfContainer(doc, ecuc_container_value, items) ==
    IF ecuc_container_value = None THEN Ok(None)
    ELSE IF XFindText(doc, ecuc_container_value[1],
                      <<Step("SHORT-NAME")>>).err # ""
    THEN Fail("AttributeError")
    ELSE IF items.err # "" THEN items
    ELSE EcuSignal(XFindText(doc, ecuc_container_value[1],
                             <<Step("SHORT-NAME")>>),
                   SignalOfItems(items.val, Ok(NoSignal)))

load_signal(doc, xpath) ==
    IF Len(xpath) < 2 THEN Fail("IndexError")
    ELSE SignalOfContainer(doc, find_value(doc, xpath),
             IF find_value(doc, xpath) = None THEN Ok(<<>>)
             ELSE iter_parameter_values(doc, find_value(doc, xpath)[1], ""))

\* the body of the loop over the ECUC-REFERENCE-VALUEs of the container
SignalOfReference(doc, definition_ref, value_ref) ==
    IF definition_ref.err # "" THEN definition_ref
    ELSE IF definition_ref.val = None THEN Fail("AttributeError")
    ELSE IF ~EndsWith(definition_ref.val[1], "ComIPduSignalRef")
    THEN Ok(None)
    ELSE IF value_ref.err # "" THEN value_ref
    ELSE IF value_ref.val = None THEN Fail("AttributeError")
    ELSE load_signal(doc, value_ref.val[1])

RECURSIVE EcuSignalsOf(_, _, _)
EcuSignalsOf(doc, values, signals) ==
    IF signals.err # "" \/ values = <<>> THEN signals
    ELSE EcuSignalsOf(doc, Tail(values),
             Appended(signals,
                 SignalOfReference(doc,
                     XFindText(doc, Head(values), <<Step("DEFINITION-REF")>>),
                     XFindText(doc, Head(values), <<Step("VALUE-REF")>>))))

MessageOfSignals(name, frame, signals) ==
    IF signals.err # "" THEN signals
    ELSE Ok(Some(Message(<<Ok(name), Ok(frame.frame_id[1]),
                           Ok(frame.length[1]),
                           Ok(frame.is_extended_frame[1]), Ok(None)>>,
                         None, signals.val)))

\* no message for a frame without id, type or length
MessageOfFrameRead(doc, com_i_pdu, name, frame) ==
    IF frame.err # "" THEN frame
    ELSE IF \/ frame.val.frame_id = None
            \/ frame.val.is_extended_frame = None
            \/ frame.val.length = None
    THEN Ok(None)
    ELSE MessageOfSignals(name, frame.val,
             EcuSignalsOf(doc,
                 IterFind(doc, <<com_i_pdu>>, ECUC_REFERENCE_VALUE_XPATH),
                 Ok(<<>>)))

\* a variant that skips a container of another direction
MessageOfDirection_lenient(doc, com_i_pdu, name, direction, com_pdu_id_ref) ==
    IF com_pdu_id_ref = None \/ com_pdu_id_ref[1] = None
    THEN Fail("No ComPduIdRef reference found")
    ELSE IF direction = Some(Some(<<"SEND">>))
    THEN MessageOfFrameRead(doc, com_i_pdu, name,
                            load_message_tx(doc, com_pdu_id_ref[1][1]))
    ELSE IF direction = Some(Some(<<"RECEIVE">>))
    THEN MessageOfFrameRead(doc, com_i_pdu, name,
                            load_message_rx(doc, com_pdu_id_ref[1][1]))
    ELSE Ok(None)

\* lines 1477-1485, given the direction and the reference to the PDU
MessageOfDirection(doc, com_i_pdu, name, direction, com_pdu_id_ref) ==
    IF com_pdu_id_ref = None \/ com_pdu_id_ref[1] = None
    THEN Fail("No ComPduIdRef reference found")
    ELSE IF direction = Some(Some(<<"SEND">>))
    THEN MessageOfFrameRead(doc, com_i_pdu, name,
                            load_message_tx(doc, com_pdu_id_ref[1][1]))
    ELSE IF direction = Some(Some(<<"RECEIVE">>))
    THEN MessageOfFrameRead(doc, com_i_pdu, name,
                            load_message_rx(doc, com_pdu_id_ref[1][1]))
    ELSE Fail("NotImplementedError")

\* load_message once the loops over the parameters and the references
\* have ended
MessageOfItems(doc, com_i_pdu, name, parameters, references) ==
    IF name.err # "" THEN name
    ELSE IF parameters.err # "" THEN parameters
    ELSE IF references.err # "" THEN references
    ELSE MessageOfDirection(doc, com_i_pdu, name.val,
             LastValue(parameters.val, "ComIPduDirection", None),
             LastValue(references.val, "ComPduIdRef", None))

load_message(doc, com_i_pdu) ==
    MessageOfItems(doc, com_i_pdu,
        XFindText(doc, com_i_pdu, <<Step("SHORT-NAME")>>),
        iter_parameter_values(doc, com_i_pdu, "ComIPduDirection"),
        iter_reference_values(doc, com_i_pdu, "ComPduIdRef"))

\* the body of the loop over the containers of ComConfig
ContainerLoaded(doc, ecuc_container_value, definition_ref) ==
    IF definition_ref.err # "" THEN definition_ref
    ELSE IF definition_ref.val = None THEN Fail("AttributeError")
    ELSE IF ~EndsWith(definition_ref.val[1], "ComIPdu") THEN Ok(None)
    ELSE load_message(doc, ecuc_container_value)

RECURSIVE EcuMessagesOf(_, _, _)
EcuMessagesOf(doc, containers, messages) ==
    IF messages.err # "" \/ containers = <<>> THEN messages
    ELSE EcuMessagesOf(doc, Tail(containers),
             Appended(messages,
                 ContainerLoaded(doc, Head(containers),
                     XFindText(doc, Head(containers),
                               <<Step("DEFINITION-REF")>>))))

\* load once the only /Com reference of the collection is known
MessagesOfComConfig(doc, com_config) ==
    IF com_config = None THEN Fail("TypeError")
    ELSE EcuMessagesOf(doc, ChildrenOf(doc, com_config[1]), Ok(<<>>))

\* the texts of the references that end with /Com; a reference without
\* text is an error
ComXpaths(doc, values_refs) ==
    IF \E i \in 1..Len(values_refs) : NodeAt(doc, values_refs[i]).text = None
    THEN Fail("AttributeError")
    ELSE Ok(SelectSeq([i \in 1..Len(values_refs) |->
                          NodeAt(doc, values_refs[i]).text[1]],
                      LAMBDA text : EndsWithSegment(text, "Com")))

LoadOfComXpaths(doc, com_xpaths) ==
    IF com_xpaths.err # "" THEN com_xpaths
    ELSE IF Len(com_xpaths.val) # 1 THEN Fail("ValueError")
    ELSE MessagesOfComConfig(doc,
             find_com_config(doc, com_xpaths.val[1] \o <<"ComConfig">>))

\* the messages of the database EcuExtractLoader.load returns, or the
\* exception it raises
ecu_load(doc) ==
    IF XFind(doc, <<>>, ECUC_VALUE_COLLECTION_XPATH) = None
    THEN Fail("AttributeError")
    ELSE LoadOfComXpaths(doc,
             ComXpaths(doc,
                 IterFind(doc, <<XFind(doc, <<>>,
                                       ECUC_VALUE_COLLECTION_XPATH)[1]>>,
                          ECUC_MODULE_CONFIGURATION_VALUES_REF_XPATH)))

-----------------------------------------------------------------------------
(* ECU extracts with two PDUs                                              *)

Directions == {"SEND", "RECEIVE", "BOTH"}
CfgKinds == {"none", "Tx", "Rx"}
FrameAttributes == {"CanId", "Dlc", "CanIdType"}

\* what an extract says of one PDU: the direction of its ComIPdu container,
\* the kind of the CanIf container that refers to it ("none" without one),
\* whether that container has a PARAMETER-VALUES list, and the attributes
\* the list has
PduPlans ==
    [direction : Directions, cfg : {"none"}, list : {FALSE},
     attributes : {{}}]
    \cup [direction : Directions, cfg : {"Tx", "Rx"}, list : {FALSE},
          attributes : {{}}]
    \cup [direction : Directions, cfg : {"Tx", "Rx"}, list : {TRUE},
          attributes : SUBSET FrameAttributes]

DefinitionRef(module, names) ==
    Leaf("DEFINITION-REF", <<"", "AUTOSAR", "EcucDefs", module>> \o names)

ParameterValue(module, names, value) ==
    Element("ECUC-NUMERICAL-PARAM-VALUE", None,
            <<DefinitionRef(module, names), Leaf("VALUE", value)>>)

ReferenceValue(module, names, value_ref) ==
    Element("ECUC-REFERENCE-VALUE", None,
            <<DefinitionRef(module, names), Leaf("VALUE-REF", value_ref)>>)

ContainerValue(name, module, names, parameters, references) ==
    NamedElement("ECUC-CONTAINER-VALUE", name,
        <<DefinitionRef(module, names)>> \o parameters \o references)

PduRef(n) == <<"", "Pkg", "EcuC", "EcucPduCollection", Nth("Pdu", n)>>

ComSignalRef(n) == <<"", "Pkg", "Com", "ComConfig", Nth("Signal", n)>>

\* the ComIPdu container of the n-th PDU; the direction comes after another
\* parameter, the reference to the PDU after the reference to the signal
ComIPdu(n, plan) ==
    ContainerValue(Nth("Message", n), "Com", <<"ComConfig", "ComIPdu">>,
        <<Element("PARAMETER-VALUES", None,
            <<ParameterValue("Com", <<"ComConfig", "ComIPdu",
                                      "ComIPduHandleId">>, <<"0">>),
              ParameterValue("Com", <<"ComConfig", "ComIPdu",
                                      "ComIPduDirection">>,
                             <<plan.direction>>)>>)>>,
        <<Element("REFERENCE-VALUES", None,
            <<ReferenceValue("Com", <<"ComConfig", "ComIPdu",
                                      "ComIPduSignalRef">>, ComSignalRef(n)),
              ReferenceValue("Com", <<"ComConfig", "ComIPdu", "ComPduIdRef">>,
                             PduRef(n))>>)>>)

\* the ComSignal container of the signal of the n-th PDU
ComSignal(n) ==
    ContainerValue(Nth("Signal", n), "Com", <<"ComConfig", "ComSignal">>,
        <<Element("PARAMETER-VALUES", None,
            <<ParameterValue("Com", <<"ComConfig", "ComSignal",
                                      "ComBitPosition">>, <<"8">>),
              ParameterValue("Com", <<"ComConfig", "ComSignal",
                                      "ComBitSize">>, <<"1", "6">>),
              ParameterValue("Com", <<"ComConfig", "ComSignal",
                                      "ComSignalEndianness">>,
                             <<"LITTLE_ENDIAN">>),
              ParameterValue("Com", <<"ComConfig", "ComSignal",
                                      "ComSignalType">>,
                             <<IF n = 1 THEN "SINT16" ELSE "UINT16">>)>>)>>,
        <<>>)

\* the value of an attribute of the frame of the n-th PDU
FrameValue(n, attribute) ==
    IF attribute = "CanId" THEN <<"1", IF n = 1 THEN "6" ELSE "7">>
    ELSE IF attribute = "Dlc" THEN <<"8">>
    ELSE <<IF n = 1 THEN "EXTENDED_CAN" ELSE "STANDARD_CAN">>

\* the parameters of a CanIf container, in the order CanIdType, CanId, Dlc
FrameValues(n, kind, attributes) ==
    [i \in 1..Len(attributes) |->
        ParameterValue("CanIf",
            <<"CanIfInitCfg", "CanIf" \o kind \o "PduCfg",
              "CanIf" \o kind \o "Pdu" \o attributes[i]>>,
            FrameValue(n, attributes[i]))]

\* the container of CanIfInitCfg that refers to the n-th PDU
CanIfPduCfg(n, plan) ==
    ContainerValue(Nth("Cfg", n), "CanIf",
        <<"CanIfInitCfg", "CanIf" \o plan.cfg \o "PduCfg">>,
        IF plan.list
        THEN <<Element("PARAMETER-VALUES", None,
                 FrameValues(n, plan.cfg,
                     SelectSeq(<<"CanIdType", "CanId", "Dlc">>,
                               LAMBDA a : a \in plan.attributes)))>>
        ELSE <<>>,
        <<Element("REFERENCE-VALUES", None,
            <<ReferenceValue("CanIf",
                  <<"CanIfInitCfg", "CanIf" \o plan.cfg \o "PduCfg",
                    "CanIf" \o plan.cfg \o "PduRef">>, PduRef(n))>>)>>)

CanIfPduCfgs(plans) ==
    (IF plans[1].cfg = "none" THEN <<>> ELSE <<CanIfPduCfg(1, plans[1])>>)
    \o (IF plans[2].cfg = "none" THEN <<>> ELSE <<CanIfPduCfg(2, plans[2])>>)

ModuleConfiguration(module, container, sub_containers) ==
    NamedElement("ECUC-MODULE-CONFIGURATION-VALUES", module,
        <<Element("CONTAINERS", None,
            <<NamedElement("ECUC-CONTAINER-VALUE", container,
                <<Element("SUB-CONTAINERS", None, sub_containers)>>)>>)>>)

ModuleRef(module) ==
    Element("ECUC-MODULE-CONFIGURATION-VALUES-REF-CONDITIONAL", None,
        <<Leaf("ECUC-MODULE-CONFIGURATION-VALUES-REF",
               <<"", "Pkg", module>>)>>)

\* an extract of one package: the collection of the modules, the Com
\* module with the containers of the PDUs and of their signals, and the
\* CanIf module
EcuExtract(plans) ==
    Element("AUTOSAR", None,
      <<Element("AR-PACKAGES", None,
        <<NamedElement("AR-PACKAGE", "Pkg",
          <<Element("ELEMENTS", None,
            <<NamedElement("ECUC-VALUE-COLLECTION", "Extract",
                <<Element("ECUC-VALUES", None,
                    <<ModuleRef("CanIf"), ModuleRef("Com")>>)>>),
              ModuleConfiguration("Com", "ComConfig",
                  <<ComIPdu(1, plans[1]), ComSignal(1), ComSignal(2),
                    ComIPdu(2, plans[2])>>),
              ModuleConfiguration("CanIf", "CanIfInitCfg",
                  CanIfPduCfgs(plans))>>)>>)>>)>>)

EcuExtracts == {EcuExtract(plans) : plans \in PduPlans \X PduPlans}

-----------------------------------------------------------------------------
(* EcuExtractLoader.load as a step                                         *)

EcuStart ==
    /\ ecu_doc = None
    /\ ecu_state = "ready"
    /\ ecu_messages = <<>>
    /\ ecu_error = ""

EcuReturning(doc, result) ==
    /\ ecu_doc' = Some(doc)
    /\ ecu_state' = IF result.err # "" THEN "aborted" ELSE "done"
    /\ ecu_error' = result.err
    /\ ecu_messages' = IF result.err # "" THEN <<>> ELSE result.val
    /\ UNCHANGED <<verVars, msgVars, idxVars, ttVars, loadVars,
                 qryVars, logVars>>

LoadEcuExtract ==
    /\ ecu_state = "ready"
    /\ \E doc \in EcuExtracts : EcuReturning(doc, ecu_load(doc))

EcuNext == LoadEcuExtract

EcuInit ==
    VerIdle /\ MsgIdle /\ IdxIdle /\ TtIdle /\ LoadIdle /\ EcuStart /\ QryIdle
    /\ LogIdle

SpecEcu == EcuInit /\ [][EcuNext]_vars

-----------------------------------------------------------------------------
(* Properties of the load of an ECU extract                                *)

\* an element whose DEFINITION-REF ends with a name
Defines(doc, pos, name) ==
    /\ FindText(doc, pos, "DEFINITION-REF") # None
    /\ EndsWith(FindText(doc, pos, "DEFINITION-REF")[1], name)

\* the texts of the values with a name in the lists of a container
ValuesOf(doc, container, name, value_tag) ==
    {FindText(doc, pos, value_tag) :
        pos \in {pos \in Positions(doc) :
                    /\ Len(pos) = Len(container) + 2
                    /\ SubSeq(pos, 1, Len(container)) = container
                    /\ Defines(doc, pos, name)}}

ComIPdus(doc) ==
    {pos \in Positions(doc) :
        /\ NodeAt(doc, pos).tag = "ECUC-CONTAINER-VALUE"
        /\ Defines(doc, pos, "ComIPdu")}

SendOrReceive(doc, com_i_pdu) ==
    \/ ValuesOf(doc, com_i_pdu, "ComIPduDirection", "VALUE")
          = {Some(<<"SEND">>)}
    \/ ValuesOf(doc, com_i_pdu, "ComIPduDirection", "VALUE")
          = {Some(<<"RECEIVE">>)}

\* the CanIf table of a direction
TableOf(doc, com_i_pdu) ==
    IF ValuesOf(doc, com_i_pdu, "ComIPduDirection", "VALUE")
          = {Some(<<"SEND">>)}
    THEN "Tx" ELSE "Rx"

\* the containers of a CanIf table that refer to the PDU of a ComIPdu
FrameCfgs(doc, com_i_pdu, table) ==
    {pos \in Positions(doc) :
        /\ NodeAt(doc, pos).tag = "ECUC-CONTAINER-VALUE"
        /\ Defines(doc, pos, "CanIf" \o table \o "PduCfg")
        /\ ValuesOf(doc, pos, "CanIf" \o table \o "PduRef", "VALUE-REF")
           \cap ValuesOf(doc, com_i_pdu, "ComPduIdRef", "VALUE-REF") # {}}

HasFrameAttributes(doc, cfg, table) ==
    \A attribute \in FrameAttributes :
        ValuesOf(doc, cfg, "CanIf" \o table \o "Pdu" \o attribute, "VALUE")
           # {}

\* a ComIPdu for which the CanIf table of its direction has no CAN id, no
\* length or no addressing mode
MissesFrameAttribute(doc, com_i_pdu) ==
    \A cfg \in FrameCfgs(doc, com_i_pdu, TableOf(doc, com_i_pdu)) :
        ~HasFrameAttributes(doc, cfg, TableOf(doc, com_i_pdu))

NotSkipped(doc) ==
    {com_i_pdu \in ComIPdus(doc) : ~MissesFrameAttribute(doc, com_i_pdu)}

\* the place of a container among those that are not skipped; the ComIPdu
\* containers are children of one element
PlaceOf(doc, com_i_pdu) ==
    Cardinality({other \in NotSkipped(doc) :
                    other[Len(other)] <= com_i_pdu[Len(com_i_pdu)]})

AllSendOrReceive ==
    /\ ecu_doc # None
    /\ \A com_i_pdu \in ComIPdus(ecu_doc[1]) :
          SendOrReceive(ecu_doc[1], com_i_pdu)

\* C9: the load of an extract whose ComIPdu containers all have direction
\* SEND or RECEIVE does not abort; it returns one message for each
\* container that is not skipped for a missing CAN id, length or addressing
\* mode, in the order of the containers.
C9_MissingAttributeSkips ==
    AllSendOrReceive =>
        /\ ecu_state = "done"
        /\ Len(ecu_messages) = Cardinality(NotSkipped(ecu_doc[1]))
        /\ \A com_i_pdu \in NotSkipped(ecu_doc[1]) :
              ecu_messages[PlaceOf(ecu_doc[1], com_i_pdu)].name
                 = FindText(ecu_doc[1], com_i_pdu, "SHORT-NAME")

-----------------------------------------------------------------------------
(* Documents with one system signal and its LINEAR compu method            *)

\* largest number of values of a generated COMPU-NUMERATOR; a generated
\* COMPU-DENOMINATOR has one value less at most
MaxCoeffs == 3

\* the texts of the numerators: 10, 2 and -3
NumeratorTexts == {<<"1", "0">>, <<"2">>, <<"-", "3">>}

\* the texts of the denominators: 1, 4 and 0
DenominatorTexts == {<<"1">>, <<"4">>, <<"0">>}

Values(tag, texts) ==
    Element(tag, None, [i \in 1..Len(texts) |-> Leaf("V", texts[i])])

CompuRationalCoeffs ==
    {<<>>} \cup
    {<<Element("COMPU-RATIONAL-COEFFS", None,
               <<Values("COMPU-NUMERATOR", numerators),
                 Values("COMPU-DENOMINATOR", denominators)>>)>> :
        numerators \in SeqsUpTo(NumeratorTexts, MaxCoeffs),
        denominators \in SeqsUpTo(DenominatorTexts, MaxCoeffs - 1)}

\* the lower limit is 0 or 010 (octal 8), the upper limit 100
LinearScales ==
    {Element("COMPU-SCALE", None, lower \o upper \o coeffs) :
        lower \in Optional("LOWER-LIMIT", {<<"0">>, <<"0", "1", "0">>}),
        upper \in Optional("UPPER-LIMIT", {<<"1", "0", "0">>}),
        coeffs \in CompuRationalCoeffs}

\* a LINEAR compu method has one scale; the documents with none or two
\* are there as well
LinearDocuments ==
    {PackageDocument(<<SystemSignal("s", "cm"),
                       CompuMethod("cm", "LINEAR", compu_scales)>>) :
        compu_scales \in
            {<<>>} \cup {<<compu_scale>> : compu_scale \in LinearScales}
            \cup {<<compu_scale, compu_scale>> :
                     compu_scale \in {compu_scale \in LinearScales :
                                         Len(compu_scale.kids) < 2}}}

LoadLinearSignal ==
    /\ tt_state = "ready"
    /\ \E doc \in LinearDocuments : LoadSystemSignal(doc, FALSE)

LinNext == LoadLinearSignal

LinearInit ==
    TtInit /\ VerIdle /\ MsgIdle /\ IdxIdle /\ LoadIdle /\ EcuIdle /\ QryIdle
    /\ LogIdle

SpecLinear == LinearInit /\ [][LinNext]_vars

-----------------------------------------------------------------------------
(* Properties of the LINEAR signal                                         *)

\* the number a text of these documents stands for; a limit with a
\* leading zero is octal
NumberOf(text) ==
    CASE text = <<"0">> -> 0
      [] text = <<"1">> -> 1
      [] text = <<"2">> -> 2
      [] text = <<"4">> -> 4
      [] text = <<"1", "0">> -> 10
      [] text = <<"-", "3">> -> 0 - 3
      [] text = <<"0", "1", "0">> -> 8
      [] text = <<"1", "0", "0">> -> 100

\* the first child of an element with a tag
Kid(element, tag) ==
    element.kids[CHOOSE i \in 1..Len(element.kids) :
                    element.kids[i].tag = tag]

HasKid(element, tag) ==
    \E i \in 1..Len(element.kids) : element.kids[i].tag = tag

LinearScale == NodeAt(tt_doc[1], CompuScalesPos).kids[1]

Numerators == Kid(Kid(LinearScale, "COMPU-RATIONAL-COEFFS"),
                  "COMPU-NUMERATOR").kids

Denominators == Kid(Kid(LinearScale, "COMPU-RATIONAL-COEFFS"),
                    "COMPU-DENOMINATOR").kids

\* the compu method has one scale with numerators [n0, n1] and one
\* denominator that is not zero
TwoNumeratorsOneDenominator ==
    /\ tt_doc # None
    /\ Len(NodeAt(tt_doc[1], CompuScalesPos).kids) = 1
    /\ HasKid(LinearScale, "COMPU-RATIONAL-COEFFS")
    /\ Len(Numerators) = 2
    /\ Len(Denominators) = 1
    /\ NumberOf(Denominators[1].text[1]) # 0

\* a float is the quotient of two integers
IsQuotient(float, numerator, denominator) ==
    float.num * denominator = numerator * float.den

\* a physical limit is the internal limit of that tag, times n1 / d plus
\* n0 / d; there is none without the internal limit
IsProjected(physical, tag) ==
    IF ~HasKid(LinearScale, tag) THEN physical = None
    ELSE /\ physical # None
         /\ IsQuotient(physical[1],
                       NumberOf(Kid(LinearScale, tag).text[1])
                          * NumberOf(Numerators[2].text[1])
                          + NumberOf(Numerators[1].text[1]),
                       NumberOf(Denominators[1].text[1]))

\* C11: a signal whose LINEAR compu method has the numerators [n0, n1] and
\* one denominator d is loaded with offset n0 / d and scale n1 / d, with the
\* minimum lower * scale + offset and the maximum upper * scale + offset.
C11_LinearScaleAndOffset ==
    TwoNumeratorsOneDenominator =>
        /\ tt_state = "done"
        /\ IsQuotient(tt_result[1].offset, NumberOf(Numerators[1].text[1]),
                      NumberOf(Denominators[1].text[1]))
        /\ IsQuotient(tt_result[1].factor, NumberOf(Numerators[2].text[1]),
                      NumberOf(Denominators[1].text[1]))
        /\ IsProjected(tt_result[1].minimum, "LOWER-LIMIT")
        /\ IsProjected(tt_result[1].maximum, "UPPER-LIMIT")

\* offset 10 and scale 2 with the internal limits 0 and 100: the physical
\* limits are 10 and 210
C11_Witness ==
    /\ TwoNumeratorsOneDenominator
    /\ tt_state = "done"
    /\ Numerators[1].text = Some(<<"1", "0">>)
    /\ Numerators[2].text = Some(<<"2">>)
    /\ Denominators[1].text = Some(<<"1">>)
    /\ tt_result[1].offset = Float(10, 1)
    /\ tt_result[1].factor = Float(2, 1)
    /\ tt_result[1].minimum = Some(Float(10, 1))
    /\ tt_result[1].maximum = Some(Float(210, 1))

-----------------------------------------------------------------------------
(* Properties of a load: references to a node of another kind              *)

\* the followed reference elements whose path is registered, for a node
\* whose tag is not the one their DEST attribute names
WrongKindRefs(doc, maps) ==
    {pos \in UnresolvedRefs(doc, maps) :
        /\ _follow_arxml_reference(doc, maps, Parent(pos),
                                   NodeAt(doc, pos).text[1], None,
                                   NodeAt(doc, pos).base).err = ""
        /\ _follow_arxml_reference(doc, maps, Parent(pos),
                                   NodeAt(doc, pos).text[1], None,
                                   NodeAt(doc, pos).base).val # None}

\* the references of the document that do not resolve all lead to a node
\* of another kind, and there is one
OnlyWrongKindRefs(doc, maps) ==
    /\ WrongKindRefs(doc, maps) # {}
    /\ WrongKindRefs(doc, maps) = UnresolvedRefs(doc, maps)

\* the reference of a signal mapping to its signal is among them
SignalRefOfWrongKind(doc, maps) ==
    \E pos \in WrongKindRefs(doc, maps) :
        NodeAt(doc, pos).tag \in {"I-SIGNAL-REF", "SIGNAL-REF"}

\* C12: a reference whose path is registered for a node of another tag
\* than its DEST is no error: the load does not abort because of it, and a
\* signal mapping whose reference is of that kind yields no signal.
C12_WrongKindIsNoError ==
    (/\ load_doc # None
     /\ OnlyWrongKindRefs(load_doc[1],
            _create_arxml_reference_dicts(load_doc[1]).maps))
    => /\ load_state = "done"
       /\ SignalRefOfWrongKind(load_doc[1],
              _create_arxml_reference_dicts(load_doc[1]).maps)
          => \E i \in 1..Len(load_messages) :
                load_messages[i].signals = <<>>

-----------------------------------------------------------------------------
(* Relative references of a document with nested packages                  *)
(*                                                                         *)
(* The package /p holds the package /p/q.  Each of the two declares any of *)
(* the reference bases x and y, at most one of them as its default, and    *)
(* every declared base leads to a package of its own, so that the node a   *)
(* relative reference resolves to tells which declaration has been used.   *)

\* the package a reference base leads to
BaseTargets ==
    [p |-> [x |-> <<"", "a">>, y |-> <<"", "b">>],
     q |-> [x |-> <<"", "c">>, y |-> <<"", "d">>]]

\* what a package declares of one reference base
Declarations == {"none", "named", "default", "not default"}

DeclaredBase(package, label, declaration) ==
    IF declaration = "none" THEN <<>>
    ELSE <<Element("REFERENCE-BASE", None,
                   <<Leaf("SHORT-LABEL", <<label>>)>>
                   \o (CASE declaration = "default" ->
                              <<Leaf("IS-DEFAULT", <<"true">>)>>
                         [] declaration = "not default" ->
                              <<Leaf("IS-DEFAULT", <<"false">>)>>
                         [] OTHER -> <<>>)
                   \o <<Leaf("PACKAGE-REF", BaseTargets[package][label])>>)>>

\* the declarations of a package: one default reference base at most
BasePlans ==
    {plan \in [{"x", "y"} -> Declarations] :
        ~(plan["x"] = "default" /\ plan["y"] = "default")}

DeclaredBases(package, plan) ==
    DeclaredBase(package, "x", plan["x"])
    \o DeclaredBase(package, "y", plan["y"])

\* an element from which a relative reference is followed
Triggering == NamedElement("I-SIGNAL-TRIGGERING", "e", <<>>)

\* the package a reference base leads to, with the referenced signal t
TargetPackage(name) ==
    Package(<<name>>, <<>>, <<NamedElement("I-SIGNAL", "t", <<>>)>>, <<>>)

NestedDocument(outer, inner) ==
    Element("AUTOSAR", None,
            <<Element("AR-PACKAGES", None,
                <<Package(<<"p">>, DeclaredBases("p", outer), <<Triggering>>,
                      <<Package(<<"q">>, DeclaredBases("q", inner),
                                <<Triggering,
                                  NamedElement("I-SIGNAL-GROUP", "g",
                                               <<Triggering>>)>>,
                                <<>>)>>),
                  TargetPackage("a"), TargetPackage("b"),
                  TargetPackage("c"), TargetPackage("d")>>)>>)

NestedDocuments ==
    {NestedDocument(outer, inner) : outer \in BasePlans, inner \in BasePlans}

\* the BASE attribute of a reference: none, a declared name, an unknown one
RefbaseNames == {None, Some(<<"x">>), Some(<<"y">>), Some(<<"z">>)}

QryInit ==
    /\ qry_doc = None
    /\ qry_call = None
    /\ qry_state = "ready"
    /\ qry_result = None

\* the loader has been constructed from the document; the call returns or
\* raises
Queried(doc, call, index, result) ==
    /\ qry_doc' = Some(doc)
    /\ qry_call' = Some(call)
    /\ qry_state' = IF index.err # "" THEN "no loader"
                    ELSE IF result.err # "" THEN "raised"
                    ELSE "returned"
    /\ qry_result' = IF index.err # "" THEN Some(Fail(index.err))
                     ELSE Some(result)
    /\ UNCHANGED <<verVars, msgVars, idxVars, loadVars, ttVars, ecuVars, logVars>>

FollowOfIndex(doc, call, index) ==
    Queried(doc, call, index,
            IF index.err # "" THEN Fail(index.err)
            ELSE _follow_arxml_reference(doc, index.maps, call.base_elem,
                                         call.arxml_path, call.dest_tag_name,
                                         call.refbase_name))

\* self._follow_arxml_reference(base_elem, 't', 'I-SIGNAL', refbase_name)
FollowRelativeReference ==
    /\ qry_state = "ready"
    /\ \E doc \in NestedDocuments, refbase_name \in RefbaseNames :
         \E base_elem \in {n \in Positions(doc) :
                              NodeAt(doc, n).tag = "I-SIGNAL-TRIGGERING"} :
            FollowOfIndex(doc,
                          [base_elem |-> base_elem, arxml_path |-> <<"t">>,
                           dest_tag_name |-> Some("I-SIGNAL"),
                           refbase_name |-> refbase_name],
                          _create_arxml_reference_dicts(doc))

FollowNext == FollowRelativeReference

FollowInit ==
    QryInit /\ VerIdle /\ MsgIdle /\ IdxIdle /\ LoadIdle /\ TtIdle /\ EcuIdle
    /\ LogIdle

SpecFollow == FollowInit /\ [][FollowNext]_vars

-----------------------------------------------------------------------------
(* Properties of a relative reference                                      *)

\* the packages around an element, as the document nests them
PackagesAround(doc, pos) ==
    {k \in 0..Len(pos) : NodeAt(doc, SubSeq(pos, 1, k)).tag = "AR-PACKAGE"}

SaysTrue(doc, pos, tag) ==
    FindText(doc, pos, tag) \in {Some(<<"true">>), Some(<<"True">>),
                                 Some(<<"TRUE">>)}

\* the reference bases a package declares that apply to a reference: the
\* one of the given name, the default one for a reference that names none
ApplicableBases(doc, package, refbase_name) ==
    {b \in Positions(doc) :
        /\ Len(b) = Len(package) + 2
        /\ SubSeq(b, 1, Len(package)) = package
        /\ NodeAt(doc, Parent(b)).tag = "REFERENCE-BASES"
        /\ NodeAt(doc, b).tag = "REFERENCE-BASE"
        /\ IF refbase_name = None THEN SaysTrue(doc, b, "IS-DEFAULT")
           ELSE FindText(doc, b, "SHORT-LABEL") = refbase_name}

\* the innermost packages around the element that declare an applicable base
InnermostDeclaring(doc, pos, refbase_name) ==
    {k \in PackagesAround(doc, pos) :
        /\ ApplicableBases(doc, SubSeq(pos, 1, k), refbase_name) # {}
        /\ \A j \in PackagesAround(doc, pos) :
              j > k => ApplicableBases(doc, SubSeq(pos, 1, j),
                                       refbase_name) = {}}

\* the result is the element the base leads to
LeadsTo(doc, base, arxml_path, result) ==
    /\ result.err = ""
    /\ result.val # None
    /\ DocPath(doc, result.val[1])
          = FindText(doc, base, "PACKAGE-REF")[1] \o arxml_path

FollowedFrom(doc, call, result, declaring) ==
    IF declaring = {}
    THEN result.err = "unknown reference base"
    ELSE \A k \in declaring :
            \A b \in ApplicableBases(doc, SubSeq(call.base_elem, 1, k),
                                     call.refbase_name) :
               LeadsTo(doc, b, call.arxml_path, result)

\* C13: a relative reference resolves through the reference base declared
\* by the innermost package around the base element that declares an
\* applicable one (the base of the name the reference gives, the default
\* base when it gives none); an outer package's base is used only when no
\* inner package declares an applicable one, and following the reference
\* raises the unknown-reference-base error when no package around the
\* element does.
C13_InnermostApplicableBase ==
    qry_state \in {"raised", "returned"} =>
        FollowedFrom(qry_doc[1], qry_call[1], qry_result[1],
                     InnermostDeclaring(qry_doc[1], qry_call[1].base_elem,
                                        qry_call[1].refbase_name))

\* both packages declare the base x and the reference from /p/q/e has used
\* the inner declaration
C13_Witness ==
    /\ qry_state = "returned"
    /\ qry_call[1].refbase_name = Some(<<"x">>)
    /\ Cardinality(PackagesAround(qry_doc[1], qry_call[1].base_elem)) = 2
    /\ \A k \in PackagesAround(qry_doc[1], qry_call[1].base_elem) :
          ApplicableBases(qry_doc[1], SubSeq(qry_call[1].base_elem, 1, k),
                          Some(<<"x">>)) # {}
    /\ qry_result[1].val # None
    /\ DocPath(qry_doc[1], qry_result[1].val[1]) = <<"", "c", "t">>

\* the outer default base has been used where the inner package has none
C13_WitnessOuter ==
    /\ qry_state = "returned"
    /\ qry_call[1].refbase_name = None
    /\ Cardinality(PackagesAround(qry_doc[1], qry_call[1].base_elem)) = 2
    /\ qry_result[1].val # None
    /\ DocPath(qry_doc[1], qry_result[1].val[1]) \in
          {<<"", "a", "t">>, <<"", "b", "t">>}

\* no package around the element declares an applicable base
C13_WitnessNone ==
    /\ qry_state = "raised"
    /\ qry_call[1].refbase_name = Some(<<"y">>)
    /\ qry_result[1].err = "unknown reference base"

-----------------------------------------------------------------------------
(* Child-location queries                                                  *)
(*                                                                         *)
(* The element /p/r is queried for A children along a location of one to   *)
(* MaxAtoms atoms.  Its children are A elements, with A children of their  *)
(* own, and A-REF references to the A element /p/t, whose children may     *)
(* refer to /p/t again, so that every atom of the location can meet no,    *)
(* one or two matches.                                                     *)

MaxAtoms == 3

LeafA == Element("A", None, <<>>)

RefA == Reference("A-REF", <<"", "p", "t">>, Some("A"), None)

InnerKids ==
    {<<>>, <<LeafA>>, <<LeafA, LeafA>>, <<RefA>>, <<RefA, LeafA>>}

OuterKids == {RefA} \cup {Element("A", None, kids) : kids \in InnerKids}

QueryDocument(kids, referenced) ==
    Element("AUTOSAR", None,
            <<Element("AR-PACKAGES", None,
                <<Package(<<"p">>, <<>>,
                          <<NamedElement("ROOT", "r", kids),
                            NamedElement("A", "t", referenced)>>,
                          <<>>)>>)>>)

QueryDocuments ==
    {QueryDocument(kids, referenced) :
        kids \in SeqsUpTo(OuterKids, 2), referenced \in InnerKids}

\* the qualifiers of an atom as a caller may write them
Qualifiers == {<<>>, <<"&">>, <<"*">>, <<"*", "&">>, <<"&", "*">>}

Locations ==
    UNION {[1..n -> {Atom(flags, "A") : flags \in Qualifiers}] :
              n \in 1..MaxAtoms}

\* the queried element: the one named r
QueriedElement(doc) ==
    CHOOSE n \in Positions(doc) : NodeAt(doc, n).tag = "ROOT"

ChildrenOfIndex(doc, base_elem, children_location, index) ==
    Queried(doc,
            [base_elem |-> base_elem,
             children_location |-> children_location,
             maps |-> index.maps],
            index,
            IF index.err # "" THEN Fail(index.err)
            ELSE _get_arxml_children(doc, index.maps, Some(base_elem),
                                     children_location))

GetChildrenOf(doc, index) ==
    \E children_location \in Locations :
        ChildrenOfIndex(doc, QueriedElement(doc), children_location, index)

\* self._get_arxml_children(r, children_location)
GetArxmlChildren ==
    /\ qry_state = "ready"
    /\ \E doc \in QueryDocuments :
          GetChildrenOf(doc, _create_arxml_reference_dicts(doc))

QueryNext == GetArxmlChildren

SpecQuery == FollowInit /\ [][QueryNext]_vars

-----------------------------------------------------------------------------
(* Properties of a child-location query                                    *)

\* the element an absolute reference names
ElementsNamed(doc, path) ==
    {n \in Positions(doc) : HasShortName(doc, n) /\ DocPath(doc, n) = path}

\* the children of an element that an atom for the tag matches, each
\* reference child counted for the element it names
Matching(doc, pos, tag) ==
    LET kids == NodeAt(doc, pos).kids
    IN  [i \in {j \in 1..Len(kids) : kids[j].tag \in {tag, tag \o "-REF"}} |->
            IF kids[i].tag = tag THEN Append(pos, i)
            ELSE CHOOSE n \in ElementsNamed(doc, kids[i].text[1]) : TRUE]

\* the elements the first i atoms of the location lead to
RECURSIVE Reached(_, _, _)
Reached(doc, base_elem, i) ==
    IF i = 0 THEN {base_elem}
    ELSE UNION {{Matching(doc, n, "A")[k] : k \in DOMAIN Matching(doc, n, "A")} :
                   n \in Reached(doc, base_elem, i - 1)}

\* the atom carries the qualifier, wherever among its qualifiers
Qualified(atom, qualifier) ==
    \E i \in 1..Len(atom.flags) : atom.flags[i] = qualifier

\* an atom without '*' meets more than one match under one element
Overfull(doc, call, i) ==
    /\ ~Qualified(call.children_location[i], "*")
    /\ \E n \in Reached(doc, call.base_elem, i - 1) :
          Cardinality(DOMAIN Matching(doc, n, "A")) > 1

\* the location with the qualifiers of every atom in the opposite order
Reversed(flags) == [i \in 1..Len(flags) |-> flags[Len(flags) + 1 - i]]

Reordered(children_location) ==
    [i \in 1..Len(children_location) |->
        Atom(Reversed(children_location[i].flags),
             children_location[i].tag)]

\* C14: a query aborts with the non-unique-child error when an atom without
\* '*' meets more than one matching child (an A child, or an A-REF child
\* counted for the element it names) under one of the elements the atoms
\* before it lead to, whichever position the atom has in the location; it
\* returns when no atom does, whatever the number of matches of the atoms
\* with '*'; and the query gives the same with the qualifiers '&' and '*'
\* of every atom written in the opposite order.
C14_NonMultiAtomAborts ==
    qry_state \in {"raised", "returned"} =>
        /\ (\E i \in 1..Len(qry_call[1].children_location) :
               Overfull(qry_doc[1], qry_call[1], i))
           <=> (/\ qry_state = "raised"
                /\ qry_result[1].err = "non-unique child node")
        /\ qry_result[1] =
              _get_arxml_children(qry_doc[1], qry_call[1].maps,
                                  Some(qry_call[1].base_elem),
                                  Reordered(qry_call[1].children_location))

\* the first two atoms, with '*' in either order, have led to two elements
\* with one match each, and the third atom, which has no '*', has met two
\* matches under one element
C14_Witness ==
    /\ qry_state = "raised"
    /\ Len(qry_call[1].children_location) = 3
    /\ qry_call[1].children_location[1].flags = <<"&", "*">>
    /\ ~Overfull(qry_doc[1], qry_call[1], 1)
    /\ ~Overfull(qry_doc[1], qry_call[1], 2)
    /\ Overfull(qry_doc[1], qry_call[1], 3)

\* an atom without '*' in the middle of the location has met two matches
C14_WitnessMiddle ==
    /\ qry_state = "raised"
    /\ Len(qry_call[1].children_location) = 3
    /\ ~Overfull(qry_doc[1], qry_call[1], 1)
    /\ Overfull(qry_doc[1], qry_call[1], 2)
    /\ Qualified(qry_call[1].children_location[3], "*")

\* atoms with '*' have met two matches each and the query has returned
C14_WitnessMulti ==
    /\ qry_state = "returned"
    /\ Len(qry_call[1].children_location) = 2
    /\ Len(qry_result[1].val) = 4

-----------------------------------------------------------------------------
(* SystemLoader.__init__: the AUTOSAR version of a document                *)
(*                                                                         *)
(* The namespace of the root tag is a record of its head, of the           *)
(* characters of the version text that follows the head, and of its tail.  *)

MaxVersionChars == 4

Autosar4Head == "http://autosar.org/schema/r"
Autosar3Head == "http://autosar.org/"
DaimlerTail == ".DAI.1"

Namespace(head, text, tail) == [head |-> head, text |-> text, tail |-> tail]

\* [0-9.]*
IsVersionText(chars) ==
    \A i \in 1..Len(chars) : chars[i] = "." \/ DigitValue(chars[i]) < 10

\* re.match('^http://autosar\.org/schema/r(4\.[0-9.]*)$', xml_namespace)
Autosar4Match(xml_namespace) ==
    IF /\ xml_namespace.head = Autosar4Head
       /\ xml_namespace.tail = ""
       /\ Len(xml_namespace.text) >= 2
       /\ xml_namespace.text[1] = "4"
       /\ xml_namespace.text[2] = "."
       /\ IsVersionText(xml_namespace.text)
    THEN Some(xml_namespace.text) ELSE None

\* re.match('^http://autosar\.org/(3\.[0-9.]*)$', xml_namespace)
Autosar3Match(xml_namespace) ==
    IF /\ xml_namespace.head = Autosar3Head
       /\ xml_namespace.tail = ""
       /\ Len(xml_namespace.text) >= 2
       /\ xml_namespace.text[1] = "3"
       /\ xml_namespace.text[2] = "."
       /\ IsVersionText(xml_namespace.text)
    THEN Some(xml_namespace.text) ELSE None

\* re.match('^http://autosar\.org/([0-9.]*)\.DAI\.[0-9]$', xml_namespace)
DaimlerMatch(xml_namespace) ==
    IF /\ xml_namespace.head = Autosar3Head
       /\ xml_namespace.tail = DaimlerTail
       /\ IsVersionText(xml_namespace.text)
    THEN Some(xml_namespace.text) ELSE None

\* autosar_version_string, or the error for a namespace of none of the
\* three patterns
VersionString(xml_namespace) ==
    IF Autosar4Match(xml_namespace) # None
    THEN Ok(Autosar4Match(xml_namespace)[1])
    ELSE IF Autosar3Match(xml_namespace) # None
    THEN Ok(Autosar3Match(xml_namespace)[1])
    ELSE IF DaimlerMatch(xml_namespace) # None
    THEN Ok(DaimlerMatch(xml_namespace)[1])
    ELSE Fail("Unrecognized AUTOSAR XML namespace")

\* the runs of characters between the dots of a text
RECURSIVE DotSplit(_, _, _)
DotSplit(chars, parts, run) ==
    IF chars = <<>> THEN Append(parts, run)
    ELSE IF Head(chars) = "." THEN DotSplit(Tail(chars), Append(parts, run), <<>>)
    ELSE DotSplit(Tail(chars), parts, Append(run, Head(chars)))

\* 0 if m.group(n) is None else int(m.group(n)[1:])
VersionPart(groups, n) ==
    IF Len(groups) < n THEN Ok(0) ELSE Magnitude(groups[n], 10)

\* "if self.autosar_version_major != 4 and self.autosar_version_major != 3"
SupportedVersion(parts) ==
    IF FirstError(parts) # "" THEN Fail(FirstError(parts))
    ELSE IF parts[1].val \notin {3, 4}
    THEN Fail("only AUTOSAR versions 3 and 4")
    ELSE Ok(<<parts[1].val, parts[2].val, parts[3].val>>)

\* re.match('^([0-9]*)(\.[0-9]*)?(\.[0-9]*)?$', autosar_version_string) and
\* the three int() calls
VersionOfGroups(groups) ==
    IF Len(groups) > 3 THEN Fail("Could not parse AUTOSAR version")
    ELSE SupportedVersion(<<Magnitude(groups[1], 10),
                            VersionPart(groups, 2),
                            VersionPart(groups, 3)>>)

VersionOfString(autosar_version_string) ==
    IF autosar_version_string.err # "" THEN autosar_version_string
    ELSE VersionOfGroups(DotSplit(autosar_version_string.val, <<>>, <<>>))

\* the version triple the constructor sets for a namespace
VersionOfNamespace(xml_namespace) ==
    VersionOfString(VersionString(xml_namespace))

VersionChars == {"4", "3", "0", "2", "."}

Namespaces ==
    {Namespace(head, text, tail) :
        head \in {Autosar4Head, Autosar3Head, "http://example.org/"},
        text \in SeqsUpTo(VersionChars, MaxVersionChars),
        tail \in {"", DaimlerTail}}

NsInit ==
    /\ autosar_version_major = 0
    /\ autosar_version_minor = 0
    /\ autosar_version_patch = 0
    /\ ver_query = None
    /\ ver_result = None

Constructed(xml_namespace, version) ==
    /\ qry_doc' = Some(xml_namespace)
    /\ qry_call' = None
    /\ qry_state' = IF version.err # "" THEN "raised" ELSE "returned"
    /\ qry_result' = Some(version)
    /\ autosar_version_major' = IF version.err # "" THEN 0 ELSE version.val[1]
    /\ autosar_version_minor' = IF version.err # "" THEN 0 ELSE version.val[2]
    /\ autosar_version_patch' = IF version.err # "" THEN 0 ELSE version.val[3]
    /\ UNCHANGED <<ver_query, ver_result>>
    /\ UNCHANGED <<msgVars, idxVars, loadVars, ttVars, ecuVars, logVars>>

\* SystemLoader(root, strict) for a root <AUTOSAR> without children
ConstructLoader ==
    /\ qry_state = "ready"
    /\ \E xml_namespace \in Namespaces :
          Constructed(xml_namespace, VersionOfNamespace(xml_namespace))

NsNext == ConstructLoader

NamespaceInit ==
    NsInit /\ QryInit /\ MsgIdle /\ IdxIdle /\ LoadIdle /\ TtIdle /\ EcuIdle
    /\ LogIdle

SpecNamespace == NamespaceInit /\ [][NsNext]_vars

-----------------------------------------------------------------------------
(* Properties of the detected version                                      *)

\* the namespace is http://autosar.org/schema/r4. and digits and dots
IsAutosar4Namespace(ns) ==
    /\ ns.head = "http://autosar.org/schema/r"
    /\ ns.tail = ""
    /\ Len(ns.text) >= 2
    /\ SubSeq(ns.text, 1, 2) = <<"4", ".">>
    /\ \A i \in 1..Len(ns.text) :
          ns.text[i] \in {"0", "1", "2", "3", "4", "5", "6", "7", "8", "9",
                          "."}

\* C15: for a document whose namespace matches the AUTOSAR 4 pattern the
\* loader is constructed with the version (4, 0, 0), whatever the text after
\* "r4." is.
C15_Autosar4IsAlways400 ==
    (qry_state # "ready" /\ IsAutosar4Namespace(qry_doc[1])) =>
        /\ qry_state = "returned"
        /\ DetectedVersion = <<4, 0, 0>>

\* what the constructor does for such a namespace: it takes the version from
\* the text, and raises for a text of more than three parts or with an
\* empty second or third part
C15_VersionOfText ==
    (qry_state # "ready" /\ IsAutosar4Namespace(qry_doc[1])) =>
        \/ /\ qry_state = "returned"
           /\ DetectedVersion[1] = 4
           /\ qry_doc[1].text \in
                 {<<"4", ".", "0">>, <<"4", ".", "0", "0">>}
              => DetectedVersion = <<4, 0, 0>>
           /\ qry_doc[1].text = <<"4", ".", "2">>
              => DetectedVersion = <<4, 2, 0>>
           /\ qry_doc[1].text = <<"4", ".", "3", "2">>
              => DetectedVersion = <<4, 32, 0>>
        \/ /\ qry_state = "raised"
           /\ \/ Len(qry_doc[1].text) = 2
              \/ \E i \in 3..(Len(qry_doc[1].text)) : qry_doc[1].text[i] = "."

-----------------------------------------------------------------------------
(* The reference bases of an index                                         *)
(*                                                                         *)
(* The index is built for the documents with one or two packages whose     *)
(* reference bases repeat names, defaults and IS-GLOBAL, and for the       *)
(* documents with nested packages whose bases lead to different packages.  *)

IndexNestedDocument ==
    /\ idx_state = "ready"
    /\ \E doc \in NestedDocuments : StartIndex(doc)

BasesNext == IndexPackageDocument \/ IndexNestedDocument \/ AddSubReferences

SpecBases == IndexInit /\ [][BasesNext]_vars

\* the packages of a document
PackagesIn(doc) == {n \in Positions(doc) : NodeAt(doc, n).tag = "AR-PACKAGE"}

\* the reference bases a package declares
DeclaredIn(doc, package) ==
    {b \in Positions(doc) :
        /\ Len(b) = Len(package) + 2
        /\ SubSeq(b, 1, Len(package)) = package
        /\ NodeAt(doc, b).tag = "REFERENCE-BASE"}

\* a package declares a second default base, a second base of one name or a
\* global base
IllDeclared(doc, package) ==
    \/ \E b, c \in DeclaredIn(doc, package) :
          /\ b # c
          /\ \/ SaysTrue(doc, b, "IS-DEFAULT") /\ SaysTrue(doc, c, "IS-DEFAULT")
             \/ FindText(doc, b, "SHORT-LABEL") = FindText(doc, c, "SHORT-LABEL")
    \/ \E b \in DeclaredIn(doc, package) : SaysTrue(doc, b, "IS-GLOBAL")

\* the index has, for the package, the default base and the named bases
\* that the package declares, each with the target of its one declaration
BasesIndexed(doc, maps, package) ==
    /\ \A b \in ApplicableBases(doc, package, None) :
          DictGet(maps.package_default_refbase_path, DocPath(doc, package))
             = FindText(doc, b, "PACKAGE-REF")
    /\ ApplicableBases(doc, package, None) = {}
          => DocPath(doc, package)
                \notin DOMAIN maps.package_default_refbase_path
    /\ \A b \in DeclaredIn(doc, package) :
          DictGet(NamedBases(maps, DocPath(doc, package)),
                  FindText(doc, b, "SHORT-LABEL")[1])
             = FindText(doc, b, "PACKAGE-REF")
    /\ DOMAIN NamedBases(maps, DocPath(doc, package))
          = {FindText(doc, b, "SHORT-LABEL")[1] :
                b \in DeclaredIn(doc, package)}

\* C16: in an index that has been built every package has at most one
\* default reference base and every (package, base name) has exactly one
\* target, the one of its only declaration; a document in which a package
\* declares a second default base, a second base of a name it has already
\* declared, or a global base is not indexed to the end: the build aborts.
C16_BasesUnambiguous ==
    /\ idx_state = "built" =>
          \A package \in PackagesIn(idx_doc[1]) :
             /\ ~IllDeclared(idx_doc[1], package)
             /\ Cardinality(ApplicableBases(idx_doc[1], package, None)) <= 1
             /\ BasesIndexed(idx_doc[1], idx_maps, package)
    /\ idx_state = "error" =>
          /\ \E package \in PackagesIn(idx_doc[1]) :
                IllDeclared(idx_doc[1], package)
          /\ idx_error \in {"multiple default reference bases",
                            "multiple reference bases of one name",
                            "global reference base"}

\* an index built for nested packages that declare three bases, one of them
\* a default
C16_Witness ==
    /\ idx_state = "built"
    /\ \E package \in PackagesIn(idx_doc[1]) :
          /\ Cardinality(DeclaredIn(idx_doc[1], package)) = 2
          /\ Cardinality(ApplicableBases(idx_doc[1], package, None)) = 1
    /\ Cardinality(DOMAIN idx_maps.package_refbase_paths) = 2

\* the builds that a second default, a repeated name and a global base
\* have aborted
C16_WitnessSecondDefault ==
    idx_state = "error" /\ idx_error = "multiple default reference bases"

C16_WitnessRepeatedName ==
    idx_state = "error" /\ idx_error = "multiple reference bases of one name"

C16_WitnessGlobal ==
    idx_state = "error" /\ idx_error = "global reference base"

-----------------------------------------------------------------------------
(* System descriptions whose frames map any number of PDUs                 *)
(*                                                                         *)
(* The documents are the ones with two frames, every reference absolute,   *)
(* but the PDU-TO-FRAME-MAPPINGS of a frame holds up to MaxMappings        *)
(* mappings with up to MaxPdus PDU references each.                        *)

MaxMappings == 2

MaxPdus == 2

\* the PDUs a mapping refers to: k references, to the two PDUs in turn
PduRefList(k, first) ==
    [i \in 1..k |-> IF i % 2 = 1 THEN first ELSE 3 - first]

PduRefLists ==
    {<<>>} \cup {PduRefList(k, first) : k \in 1..MaxPdus, first \in 1..2}

MappingPlans == SeqsUpTo(PduRefLists, MaxMappings)

PduToFrameMapping(v4, n, k, pdus) ==
    NamedElement("PDU-TO-FRAME-MAPPING",
                 Nth("m", n) \o "_" \o ToString(k),
                 [i \in 1..Len(pdus) |->
                     RefTo("absolute", "PDU",
                           IF v4 THEN "I-SIGNAL-I-PDU" ELSE "SIGNAL-I-PDU",
                           <<Nth("pdu", pdus[i])>>)])

MappedFrame(v4, n, plan) ==
    NamedElement(IF v4 THEN "CAN-FRAME" ELSE "FRAME", Nth("f", n),
          <<Leaf("FRAME-LENGTH", <<"8">>),
            Element("PDU-TO-FRAME-MAPPINGS", None,
                    [k \in 1..Len(plan) |->
                        PduToFrameMapping(v4, n, k, plan[k])])>>)

MappedFrameElements(v4, n, plan) ==
    <<MappedFrame(v4, n, plan)>> \o Tail(FrameElements(v4, n, LeadingRefs))

MappedDocument(v4, outer, plans) ==
    Element("AUTOSAR", None,
      <<Element(IF v4 THEN "AR-PACKAGES" ELSE "TOP-LEVEL-PACKAGES", None,
          <<NamedElement("AR-PACKAGE", "p",
              <<Element("ELEMENTS", None,
                    <<CanCluster(v4, "cl",
                                 FrameTriggering(v4, outer, LeadingRefs))>>
                    \o MappedFrameElements(v4, 1, plans[1])
                    \o MappedFrameElements(v4, 2, plans[2])),
                Element(IF v4 THEN "AR-PACKAGES" ELSE "SUB-PACKAGES", None,
                    <<NamedElement("AR-PACKAGE", "q",
                        <<Element("ELEMENTS", None,
                            <<CanCluster(v4, "cl",
                                FrameTriggering(v4, 3 - outer,
                                                LeadingRefs))>>)>>)>>)>>)>>)>>)

\* one frame with any plan, the other with one PDU or with two
MappedPlans ==
    {<<plan, other>> : plan \in MappingPlans,
                       other \in {<<<<2>>>>, <<<<1>>>>, <<<<2, 1>>>>}}
    \cup {<<other, plan>> : plan \in MappingPlans,
                            other \in {<<<<1>>>>, <<<<2>>>>, <<<<1, 2>>>>}}

MappedDocuments(v4) ==
    {MappedDocument(v4, outer, plans) :
        outer \in 1..2, plans \in MappedPlans}

LoadMappedFrames ==
    /\ load_state = "ready"
    /\ \E doc \in MappedDocuments(autosar_version_newer(4, None, None)) :
          ConstructedAndLoaded(doc, _create_arxml_reference_dicts(doc))

FramesNext == LoadMappedFrames

SpecFrames == LoadInit /\ [][FramesNext]_vars

-----------------------------------------------------------------------------
(* Properties of the PDU of a message                                      *)

\* the frame of a name
FramesNamed(doc, name) ==
    {n \in Positions(doc) :
        /\ NodeAt(doc, n).tag \in {"CAN-FRAME", "FRAME"}
        /\ FindText(doc, n, "SHORT-NAME") = name}

\* the PDU references below a frame
PduRefsOf(doc, frame) ==
    {n \in Positions(doc) :
        /\ Len(n) > Len(frame)
        /\ SubSeq(n, 1, Len(frame)) = frame
        /\ NodeAt(doc, n).tag = "PDU-REF"}

\* the names of the signals a PDU maps: the last parts of the signal
\* references below the element the PDU reference names
SignalNamesOf(doc, pdu_ref) ==
    {NodeAt(doc, n).text[1][Len(NodeAt(doc, n).text[1])] :
        n \in {m \in Positions(doc) :
                  /\ \E pdu \in ElementsNamed(doc, NodeAt(doc, pdu_ref).text[1]) :
                        /\ Len(m) > Len(pdu)
                        /\ SubSeq(m, 1, Len(pdu)) = pdu
                  /\ NodeAt(doc, m).tag \in {"I-SIGNAL-REF", "SIGNAL-REF"}}}

\* the message has the signals of the one PDU its frame maps
BuiltFromOnePdu(doc, message) ==
    \A frame \in FramesNamed(doc, message.name) :
        /\ Cardinality(PduRefsOf(doc, frame)) = 1
        /\ \A pdu_ref \in PduRefsOf(doc, frame) :
              {message.signals[i].name[1][1] :
                  i \in 1..Len(message.signals)}
                 = SignalNamesOf(doc, pdu_ref)

MapsSeveralPdus(doc) ==
    \E frame \in Positions(doc) :
        /\ NodeAt(doc, frame).tag \in {"CAN-FRAME", "FRAME"}
        /\ Cardinality(PduRefsOf(doc, frame)) > 1

\* C17: every message a load returns has been built from exactly one PDU,
\* the one its frame's PDU-TO-FRAME-MAPPING refers to; a load of a document
\* in which a frame maps more than one PDU returns nothing: it aborts.
C17_OnePduPerMessage ==
    /\ load_state = "done" =>
          /\ Len(load_messages) = 2
          /\ \A i \in 1..Len(load_messages) :
                BuiltFromOnePdu(load_doc[1], load_messages[i])
    /\ (load_state # "ready" /\ MapsSeveralPdus(load_doc[1])) =>
          /\ load_state = "aborted"
          /\ load_messages = <<>>

\* a load that has returned two messages of the same PDU, and one that a
\* frame with two PDUs in one mapping has aborted
C17_Witness ==
    /\ load_state = "done"
    /\ \A i \in 1..2 : load_messages[i].signals[1].name = Some(<<"is2">>)

C17_WitnessAborted ==
    /\ load_state = "aborted"
    /\ load_error = "non-unique child node"
    /\ \E frame \in Positions(load_doc[1]) :
          /\ Cardinality(PduRefsOf(load_doc[1], frame)) = 2
          /\ Len(NodeAt(load_doc[1], frame).kids) = 3
          /\ Len(NodeAt(load_doc[1], Append(frame, 3)).kids) = 1

-----------------------------------------------------------------------------
(* System descriptions whose signals have a compu method of any category   *)
(*                                                                         *)
(* The documents are the ones with two frames, every reference absolute;   *)
(* the system signal of each frame refers to a compu method of its own.    *)

\* the CATEGORY of a compu method: categories the loader does not know, an
\* empty CATEGORY element, and TEXTTABLE
Categories ==
    {Some(<<"IDENTICAL">>), Some(<<"RAT_FUNC">>),
     Some(<<"BITFIELD_TEXTTABLE">>), Some(<<"texttable">>), None,
     Some(<<"TEXTTABLE">>)}

\* what a compu method holds besides its category: nothing, a scale with
\* limits and a name, a scale whose limit is no number, rational
\* coefficients with a zero denominator
MethodContents ==
    {<<>>,
     <<Element("COMPU-SCALE", None,
               <<Leaf("LOWER-LIMIT", <<"0">>), Leaf("UPPER-LIMIT", <<"1">>),
                 Element("COMPU-CONST", None, <<Leaf("VT", <<"ON">>)>>)>>)>>,
     <<Element("COMPU-SCALE", None, <<Leaf("LOWER-LIMIT", <<"x">>)>>)>>,
     <<Element("COMPU-SCALE", None,
               <<Element("COMPU-RATIONAL-COEFFS", None,
                   <<Element("COMPU-NUMERATOR", None,
                             <<Leaf("V", <<"1">>)>>),
                     Element("COMPU-DENOMINATOR", None,
                             <<Leaf("V", <<"0">>)>>)>>)>>)>>}

MethodPlans == [category : Categories, compu_scales : MethodContents]

CategoryMethod(n, plan) ==
    NamedElement("COMPU-METHOD", Nth("cm", n),
          <<Element("CATEGORY", plan.category, <<>>),
            Element("COMPU-INTERNAL-TO-PHYS", None,
                    <<Element("COMPU-SCALES", None, plan.compu_scales)>>)>>)

CompuMethodRef(n) ==
    Reference("COMPU-METHOD-REF", <<"", "p", Nth("cm", n)>>,
              Some("COMPU-METHOD"), None)

\* the system signal of the n-th frame with the reference to its compu
\* method
CategorySystemSignal(v4, n) ==
    NamedElement("SYSTEM-SIGNAL", Nth("s", n),
          IF v4
          THEN <<Element("PHYSICAL-PROPS", None,
                   <<Element("SW-DATA-DEF-PROPS-VARIANTS", None,
                       <<Element("SW-DATA-DEF-PROPS-CONDITIONAL", None,
                           <<CompuMethodRef(n)>>)>>)>>)>>
          ELSE <<Element("DATA-TYPE", None,
                   <<Element("SW-DATA-DEF-PROPS", None,
                             <<CompuMethodRef(n)>>)>>)>>)

CategoryFrameElements(v4, n, plan) ==
    <<Frame(v4, n, LeadingRefs), Pdu(v4, n, LeadingRefs),
      ISignal(v4, n, LeadingRefs), CategorySystemSignal(v4, n),
      CategoryMethod(n, plan), ConstantSpecification(v4, n)>>

CategoryDocument(v4, outer, plans) ==
    Element("AUTOSAR", None,
      <<Element(IF v4 THEN "AR-PACKAGES" ELSE "TOP-LEVEL-PACKAGES", None,
          <<NamedElement("AR-PACKAGE", "p",
              <<Element("ELEMENTS", None,
                    <<CanCluster(v4, "cl",
                                 FrameTriggering(v4, outer, LeadingRefs))>>
                    \o CategoryFrameElements(v4, 1, plans[1])
                    \o CategoryFrameElements(v4, 2, plans[2])),
                Element(IF v4 THEN "AR-PACKAGES" ELSE "SUB-PACKAGES", None,
                    <<NamedElement("AR-PACKAGE", "q",
                        <<Element("ELEMENTS", None,
                            <<CanCluster(v4, "cl",
                                FrameTriggering(v4, 3 - outer,
                                                LeadingRefs))>>)>>)>>)>>)>>)>>)

CategoryDocuments(v4) ==
    {CategoryDocument(v4, outer, plans) :
        outer \in 1..2, plans \in [1..2 -> MethodPlans]}

LoadCategories ==
    /\ load_state = "ready"
    /\ \E doc \in CategoryDocuments(autosar_version_newer(4, None, None)) :
          ConstructedAndLoaded(doc, _create_arxml_reference_dicts(doc))

CategoryNext == LoadCategories

SpecCategory == LoadInit /\ [][CategoryNext]_vars

-----------------------------------------------------------------------------
(* Properties of a signal whose compu method has an unknown category       *)

KnownCategories ==
    {Some(<<"TEXTTABLE">>), Some(<<"LINEAR">>),
     Some(<<"SCALE_LINEAR_AND_TEXTTABLE">>)}

\* the compu methods of a document whose category the loader knows
KnownMethods(doc) ==
    {n \in Positions(doc) :
        /\ NodeAt(doc, n).tag = "COMPU-METHOD"
        /\ FindText(doc, n, "CATEGORY") \in KnownCategories}

\* the compu method of the signal of the message of the frame f<n> is cm<n>
HasUnknownCategory(doc, message) ==
    \E n \in 1..2 :
        /\ message.name = Some(<<Nth("f", n)>>)
        /\ \A m \in KnownMethods(doc) :
              FindText(doc, m, "SHORT-NAME") # Some(<<Nth("cm", n)>>)

IdentityScaled(signal) ==
    /\ signal.scale = 1
    /\ signal.offset = 0
    /\ signal.minimum = None
    /\ signal.maximum = None
    /\ signal.choices = None

\* C18: a compu method whose CATEGORY is none of LINEAR, TEXTTABLE and
\* SCALE_LINEAR_AND_TEXTTABLE does not abort the load, whatever it holds:
\* a document all of whose compu methods are of such a category is loaded
\* with all its messages, and in every load that returns, the signal of
\* such a compu method has scale 1, offset 0, no minimum, no maximum and no
\* choices.
C18_UnknownCategoryIsIdentity ==
    /\ (load_state # "ready" /\ KnownMethods(load_doc[1]) = {}) =>
          /\ load_state = "done"
          /\ Len(load_messages) = 2
    /\ load_state = "done" =>
          \A i \in 1..Len(load_messages) :
             HasUnknownCategory(load_doc[1], load_messages[i]) =>
                /\ Len(load_messages[i].signals) = 1
                /\ IdentityScaled(load_messages[i].signals[1])

\* the first frame's compu method is of the category RAT_FUNC and holds a
\* zero denominator, the second frame's is a TEXTTABLE with a choice: both
\* messages are there, the first signal with the defaults, the second with
\* its choice
C18_Witness ==
    /\ load_state = "done"
    /\ Len(load_messages) = 2
    /\ \E i, j \in 1..2 :
          /\ HasUnknownCategory(load_doc[1], load_messages[i])
          /\ IdentityScaled(load_messages[i].signals[1])
          /\ ~HasUnknownCategory(load_doc[1], load_messages[j])
          /\ load_messages[j].signals[1].choices # None
    /\ \E m \in Positions(load_doc[1]) :
          /\ NodeAt(load_doc[1], m).tag = "COMPU-METHOD"
          /\ FindText(load_doc[1], m, "CATEGORY") = Some(<<"RAT_FUNC">>)
          /\ \E d \in Positions(load_doc[1]) :
                /\ Len(d) > Len(m)
                /\ SubSeq(d, 1, Len(m)) = m
                /\ NodeAt(load_doc[1], d).tag = "COMPU-DENOMINATOR"

-----------------------------------------------------------------------------
(* ECU extracts whose ComIPdu containers have any direction                *)
(*                                                                         *)
(* The extracts are the ones with two PDUs whose CanIf containers are      *)
(* complete; a ComIPdu container has the direction SEND, RECEIVE, BOTH or  *)
(* send, or no ComIPduDirection parameter, and has or lacks its            *)
(* ComPduIdRef reference.                                                  *)

DirectionPlans ==
    [direction : {"SEND", "RECEIVE", "BOTH", "send"}, declared : BOOLEAN,
     refers : BOOLEAN, cfg : {"Tx", "Rx"}, list : {TRUE},
     attributes : {FrameAttributes}]

DirectedComIPdu(n, plan) ==
    ContainerValue(Nth("Message", n), "Com", <<"ComConfig", "ComIPdu">>,
        <<Element("PARAMETER-VALUES", None,
            <<ParameterValue("Com", <<"ComConfig", "ComIPdu",
                                      "ComIPduHandleId">>, <<"0">>)>>
            \o IF plan.declared
               THEN <<ParameterValue("Com", <<"ComConfig", "ComIPdu",
                                              "ComIPduDirection">>,
                                     <<plan.direction>>)>>
               ELSE <<>>)>>,
        <<Element("REFERENCE-VALUES", None,
            <<ReferenceValue("Com", <<"ComConfig", "ComIPdu",
                                      "ComIPduSignalRef">>, ComSignalRef(n))>>
            \o IF plan.refers
               THEN <<ReferenceValue("Com", <<"ComConfig", "ComIPdu",
                                              "ComPduIdRef">>, PduRef(n))>>
               ELSE <<>>)>>)

DirectionExtract(plans) ==
    Element("AUTOSAR", None,
      <<Element("AR-PACKAGES", None,
        <<NamedElement("AR-PACKAGE", "Pkg",
          <<Element("ELEMENTS", None,
            <<NamedElement("ECUC-VALUE-COLLECTION", "Extract",
                <<Element("ECUC-VALUES", None,
                    <<ModuleRef("CanIf"), ModuleRef("Com")>>)>>),
              ModuleConfiguration("Com", "ComConfig",
                  <<DirectedComIPdu(1, plans[1]), ComSignal(1), ComSignal(2),
                    DirectedComIPdu(2, plans[2])>>),
              ModuleConfiguration("CanIf", "CanIfInitCfg",
                  CanIfPduCfgs(plans))>>)>>)>>)>>)

DirectionExtracts ==
    {DirectionExtract(plans) : plans \in DirectionPlans \X DirectionPlans}

LoadDirections ==
    /\ ecu_state = "ready"
    /\ \E doc \in DirectionExtracts : EcuReturning(doc, ecu_load(doc))

DirectionNext == LoadDirections

SpecDirection == EcuInit /\ [][DirectionNext]_vars

-----------------------------------------------------------------------------
(* Properties of the direction of a ComIPdu container                      *)

HasPduIdRef(doc, com_i_pdu) ==
    ValuesOf(doc, com_i_pdu, "ComPduIdRef", "VALUE-REF") # {}

\* a container the load cannot get past: its direction is neither SEND nor
\* RECEIVE, or it has no reference to its PDU
Blocking(doc, com_i_pdu) ==
    ~SendOrReceive(doc, com_i_pdu) \/ ~HasPduIdRef(doc, com_i_pdu)

\* the first such container in the order of the document
FirstBlocking(doc) ==
    {com_i_pdu \in ComIPdus(doc) :
        /\ Blocking(doc, com_i_pdu)
        /\ \A other \in ComIPdus(doc) :
              Blocking(doc, other)
                 => other[Len(other)] >= com_i_pdu[Len(com_i_pdu)]}

HasOtherDirection ==
    /\ ecu_doc # None
    /\ \E com_i_pdu \in ComIPdus(ecu_doc[1]) :
          ~SendOrReceive(ecu_doc[1], com_i_pdu)

-----------------------------------------------------------------------------
(* SystemLoader._load_pdu called with any selector index                   *)

MaxIdx == 3

MaxNested == 1

\* plain PDUs, PDUs multiplexed once, and PDUs whose alternatives are
\* multiplexed themselves
DecomposedPdus == InnerPdus(MaxSigs) \cup NestedDynaltPdus(MaxNested)

\* self._load_pdu(pdu, frame_name, next_selector_idx)
Decomposed(pdu, next_selector_idx, loaded) ==
    /\ qry_doc' = Some(pdu)
    /\ qry_call' = Some([frame_name |-> FrameName,
                         next_selector_idx |-> next_selector_idx])
    /\ qry_state' = IF loaded.err # "" THEN "raised" ELSE "returned"
    /\ qry_result' = Some(loaded)
    /\ UNCHANGED <<verVars, msgVars, idxVars, loadVars, ttVars, ecuVars, logVars>>

LoadPdu ==
    /\ qry_state = "ready"
    /\ \E pdu \in DecomposedPdus, next_selector_idx \in 1..MaxIdx :
          Decomposed(pdu, next_selector_idx,
                     _load_pdu(pdu, FrameName, next_selector_idx))

DecomposeNext == LoadPdu

SpecDecompose == FollowInit /\ [][DecomposeNext]_vars

-----------------------------------------------------------------------------
(* Properties of the selector index                                        *)

RECURSIVE SumOf(_, _)
SumOf(counts, k) == IF k = 0 THEN 0 ELSE counts[k] + SumOf(counts, k - 1)

\* the multiplexed PDUs in a PDU, itself included
RECURSIVE MultiplexedIn(_)
MultiplexedIn(pdu) ==
    IF ~pdu.mux THEN 0
    ELSE 1 + SumOf([k \in 1..Len(pdu.dynalts) |->
                       MultiplexedIn(pdu.dynalts[k].pdu)],
                   Len(pdu.dynalts))
           + SumOf([k \in 1..Len(pdu.statics) |->
                       MultiplexedIn(pdu.statics[k])],
                   Len(pdu.statics))

\* the selector signals among the signals of a result
SelectorsOf(signals) ==
    {i \in 1..Len(signals) : signals[i].is_multiplexer}

\* C20: _load_pdu(pdu, frame_name, n) returns the index n plus the number
\* of selector signals it has synthesized for pdu and for the multiplexed
\* PDUs nested in it, so a larger index than n for a multiplexed pdu.
C20_CounterAdvances ==
    qry_state = "returned" =>
        /\ qry_result[1].next_selector_idx
              = qry_call[1].next_selector_idx + MultiplexedIn(qry_doc[1])
        /\ qry_doc[1].mux
              => qry_result[1].next_selector_idx
                    > qry_call[1].next_selector_idx

\* what _load_pdu does: it names the selector of a multiplexed PDU after
\* the index it was called with, and returns that index
C20_CounterReturnedAsPassed ==
    qry_state = "returned" =>
        /\ qry_doc[1].mux =>
              \E i \in SelectorsOf(qry_result[1].signals) :
                 qry_result[1].signals[i].name
                    = SelectorName(FrameName, qry_call[1].next_selector_idx)
        /\ Cardinality(SelectorsOf(qry_result[1].signals))
              <= MultiplexedIn(qry_doc[1])
        /\ qry_result[1].next_selector_idx = qry_call[1].next_selector_idx

\* a PDU with a multiplexed alternative has been decomposed from index 2:
\* two selectors, and the index 2 returned
C20_Decomposed ==
    /\ qry_state = "returned"
    /\ qry_call[1].next_selector_idx = 2
    /\ MultiplexedIn(qry_doc[1]) = 2
    /\ qry_result[1].next_selector_idx = 2

-----------------------------------------------------------------------------
(* The alternatives' copies of the selector: signals of several lengths    *)

\* largest bit length of a generated signal or selector field
MaxLen == 2

\* signals of every start bit and length, with and without a text table
SizedSignals(choiceOpts) ==
    {Signal("s" \o ToString(start) \o "_" \o ToString(length),
            start, length, ch, FALSE) :
        start \in 0..MaxPos, length \in 1..MaxLen, ch \in choiceOpts}

SizedPdus(choiceOpts, maxSigs) ==
    {[mux |-> FALSE, sigs |-> ss, selector_pos |-> 0, selector_len |-> 0,
      dynalts |-> <<>>, statics |-> <<>>] :
        ss \in SeqsUpTo(SizedSignals(choiceOpts), maxSigs)}

\* the alternatives of a PDU: the k-th one has the code k
SizedDynalts(pdus, n) ==
    UNION {{[k \in 1..m |-> [code |-> k, initial |-> FALSE, pdu |-> ps[k]]] :
               ps \in [1..m -> pdus]} : m \in 0..n}

SizedMuxPdus(own, dynalts) ==
    {[mux |-> TRUE, sigs |-> o, selector_pos |-> pos, selector_len |-> len,
      dynalts |-> a, statics |-> <<>>] :
        o \in own, pos \in 0..MaxPos, len \in 1..MaxLen, a \in dynalts}

\* multiplexed PDUs whose alternatives are plain PDUs
FlatSizedPdus(maxAlts) ==
    SizedMuxPdus({<<>>},
                 SizedDynalts(SizedPdus({None, Some(0 :> "A")}, MaxSigs), maxAlts))

\* multiplexed PDUs with one alternative, and with at most one signal of
\* their own
InnerSizedPdus(maxSigs) ==
    SizedMuxPdus(SeqsUpTo(SizedSignals({None}), maxSigs),
                 SizedDynalts(SizedPdus({None}, maxSigs), 1))

\* multiplexed PDUs whose alternative is a multiplexed PDU
NestedSizedPdus(maxSigs) ==
    SizedMuxPdus({<<>>}, SizedDynalts(InnerSizedPdus(maxSigs), 1))

LoadSizedPdu ==
    /\ qry_state = "ready"
    /\ \E pdu \in FlatSizedPdus(MaxAlts) \cup NestedSizedPdus(1) :
          Decomposed(pdu, 1, _load_pdu(pdu, FrameName, 1))

DuplicateNext == LoadSizedPdu

SpecDuplicate == FollowInit /\ [][DuplicateNext]_vars

-----------------------------------------------------------------------------
(* Properties of the alternatives' copies of the selector                  *)

\* the signals of a list with the start bit and the bit length of a field
DuplicatesOf(signals, pos, len) ==
    {i \in 1..Len(signals) :
        signals[i].start = pos /\ signals[i].length = len}

\* a signal without the multiplexer tags an enclosing PDU may set
Untagged(sig) ==
    [sig EXCEPT !.multiplexer_signal = None, !.multiplexer_ids = None]

RECURSIVE Flattened(_, _)
Flattened(lists, k) ==
    IF k = 0 THEN <<>> ELSE Flattened(lists, k - 1) \o lists[k]

\* the decomposition of each alternative's PDU, taken by itself
AlternativesLoaded(pdu, next_selector_idx) ==
    [k \in 1..Len(pdu.dynalts) |->
        _load_pdu(pdu.dynalts[k].pdu, FrameName, next_selector_idx + 1)]

\* C21: when the decomposition of a multiplexed PDU returns, the nested
\* decomposition of each alternative held exactly one signal with the
\* selector's start bit and bit length; the result is the selector followed
\* by the alternatives' signals without that one, and the selector's choice
\* table holds every raw value of the removed signal's table.  When some
\* alternative's decomposition holds none or several such signals, the
\* load aborts; an alternative that is itself multiplexed is no exception.
C21_OneDuplicatePerAlternative ==
    (qry_state \in {"returned", "raised"} /\ qry_doc[1].mux) =>
        LET pdu == qry_doc[1]
            loaded == AlternativesLoaded(pdu, qry_call[1].next_selector_idx)
            Dups(k) == DuplicatesOf(loaded[k].signals,
                                    pdu.selector_pos, pdu.selector_len)
            Dup(k) == loaded[k].signals[CHOOSE i \in Dups(k) : TRUE]
            Kept(k) == RemoveAt(loaded[k].signals, CHOOSE i \in Dups(k) : TRUE)
            result == qry_result[1]
            selector == result.signals[Len(pdu.sigs) + 1]
            after == SubSeq(result.signals, Len(pdu.sigs) + 2,
                            Len(result.signals))
        IN
        /\ (\E k \in DOMAIN loaded :
               loaded[k].err = "" /\ Cardinality(Dups(k)) # 1)
             => /\ qry_state = "raised"
                /\ result.err = "AssertionError"
        /\ qry_state = "returned" =>
             /\ \A k \in DOMAIN loaded :
                  /\ loaded[k].err = ""
                  /\ Cardinality(Dups(k)) = 1
                  /\ Dup(k).choices # None =>
                       \A v \in DOMAIN Dup(k).choices[1] :
                          v \in DOMAIN selector.choices[1]
             /\ [i \in DOMAIN after |-> Untagged(after[i])]
                  = Flattened([k \in DOMAIN loaded |->
                                  [i \in 1..Len(Kept(k)) |-> Untagged(Kept(k)[i])]],
                              Len(pdu.dynalts))

\* two alternatives, each with its copy of the selector and another
\* signal; the first copy has a text table
C21_Witness ==
    /\ qry_state = "returned"
    /\ qry_doc[1].mux
    /\ Len(qry_doc[1].dynalts) = 2
    /\ qry_doc[1].selector_len = 2
    /\ \A k \in 1..2 : Len(qry_doc[1].dynalts[k].pdu.sigs) = 2
    /\ \E i \in 1..2 :
          /\ qry_doc[1].dynalts[1].pdu.sigs[i].start = qry_doc[1].selector_pos
          /\ qry_doc[1].dynalts[1].pdu.sigs[i].choices # None
    /\ Len(qry_result[1].signals) = 3

\* an alternative without a signal of the selector's start and length
C21_WitnessNone ==
    /\ qry_state = "raised"
    /\ qry_doc[1].mux
    /\ Len(qry_doc[1].dynalts) = 1
    /\ ~qry_doc[1].dynalts[1].pdu.mux
    /\ Len(qry_doc[1].dynalts[1].pdu.sigs) = 1
    /\ DuplicatesOf(qry_doc[1].dynalts[1].pdu.sigs,
                    qry_doc[1].selector_pos, qry_doc[1].selector_len) = {}

\* an alternative with two signals of the selector's start and length
C21_WitnessSeveral ==
    /\ qry_state = "raised"
    /\ qry_doc[1].mux
    /\ Len(qry_doc[1].dynalts) = 1
    /\ DuplicatesOf(qry_doc[1].dynalts[1].pdu.sigs,
                    qry_doc[1].selector_pos, qry_doc[1].selector_len) = {1, 2}

\* an alternative that is multiplexed itself and whose decomposition has
\* no signal at the outer selector's place
C21_WitnessNested ==
    /\ qry_state = "raised"
    /\ qry_doc[1].mux
    /\ Len(qry_doc[1].dynalts) = 1
    /\ qry_doc[1].dynalts[1].pdu.mux
    /\ LET loaded == AlternativesLoaded(qry_doc[1], 1) IN
       /\ loaded[1].err = ""
       /\ Len(loaded[1].signals) = 2
       /\ DuplicatesOf(loaded[1].signals, qry_doc[1].selector_pos,
                       qry_doc[1].selector_len) = {}

\* a multiplexed alternative whose own selector is the one signal at the
\* outer selector's place
C21_WitnessNestedSelector ==
    /\ qry_state = "returned"
    /\ qry_doc[1].mux
    /\ Len(qry_doc[1].dynalts) = 1
    /\ qry_doc[1].dynalts[1].pdu.mux
    /\ qry_doc[1].dynalts[1].pdu.selector_pos = qry_doc[1].selector_pos
    /\ Len(qry_result[1].signals) = 2

-----------------------------------------------------------------------------
(* Nested multiplexing with room for the outer selector, the inner         *)
(* selector and a signal of the inner alternative                          *)

\* largest start bit of a signal or selector field of these PDUs
MaxTagPos == 2

TagSignals ==
    {Signal("s" \o ToString(start), start, 1, None, FALSE) :
        start \in 0..MaxTagPos}

TagLeafPdus(maxSigs) ==
    {[mux |-> FALSE, sigs |-> ss, selector_pos |-> 0, selector_len |-> 0,
      dynalts |-> <<>>, statics |-> <<>>] : ss \in SeqsUpTo(TagSignals, maxSigs)}

TagMuxPdus(own, dynalts) ==
    {[mux |-> TRUE, sigs |-> o, selector_pos |-> pos, selector_len |-> 1,
      dynalts |-> a, statics |-> <<>>] :
        o \in own, pos \in 0..MaxTagPos, a \in dynalts}

\* the PDU of an alternative: plain, or multiplexed with one alternative
InnerTagPdus(maxSigs) ==
    TagLeafPdus(maxSigs) \cup
    TagMuxPdus(SeqsUpTo(TagSignals, 1), SizedDynalts(TagLeafPdus(maxSigs), 1))

NestedTagPdus(maxAlts) ==
    TagMuxPdus({<<>>}, SizedDynalts(InnerTagPdus(MaxSigs), maxAlts))

LoadNestedTagPdu ==
    /\ qry_state = "ready"
    /\ \E pdu \in NestedTagPdus(MaxAlts) :
          Decomposed(pdu, 1, _load_pdu(pdu, FrameName, 1))

TaggingNext == LoadNestedTagPdu

SpecTagging == FollowInit /\ [][TaggingNext]_vars

-----------------------------------------------------------------------------
(* Properties of the multiplexer tags under nested multiplexing            *)

\* the signals of an alternative's decomposition that the enclosing PDU
\* keeps: all but the one at its selector's position
KeptOf(signals, pos) ==
    RemoveAt(signals, CHOOSE i \in StartsAt(signals, pos) : TRUE)

\* what the claim has for a kept signal of an alternative
TaggedBy(sig, name, code) ==
    IF sig.multiplexer_signal # None \/ sig.multiplexer_ids # None
    THEN sig
    ELSE [sig EXCEPT !.multiplexer_signal = Some(name),
                     !.multiplexer_ids = Some(<<code>>)]

\* C22: in the decomposition of a multiplexed PDU, a signal that an inner
\* multiplexer of an alternative has tagged is the signal the alternative's
\* decomposition returned, with the inner multiplexer_signal and
\* multiplexer_ids; a signal without a tag, the inner selector included,
\* has the outer selector's name and the alternative's code as its one id.
C22_InnerTagsKept ==
    (qry_state = "returned" /\ qry_doc[1].mux) =>
        LET pdu == qry_doc[1]
            loaded == AlternativesLoaded(pdu, qry_call[1].next_selector_idx)
            result == qry_result[1]
            selector == result.signals[Len(pdu.sigs) + 1]
            after == SubSeq(result.signals, Len(pdu.sigs) + 2,
                            Len(result.signals))
            Kept(k) == KeptOf(loaded[k].signals, pdu.selector_pos)
        IN
        after = Flattened([k \in DOMAIN loaded |->
                              [i \in 1..Len(Kept(k)) |->
                                  TaggedBy(Kept(k)[i], selector.name,
                                           pdu.dynalts[k].code)]],
                          Len(pdu.dynalts))

\* the first alternative is multiplexed: its selector is tagged by the
\* outer selector and its alternative's signal by the inner selector; the
\* second alternative's signal is tagged by the outer selector
C22_Witness ==
    /\ qry_state = "returned"
    /\ qry_doc[1].mux
    /\ Len(qry_doc[1].dynalts) = 2
    /\ qry_doc[1].dynalts[1].pdu.mux
    /\ ~qry_doc[1].dynalts[2].pdu.mux
    /\ LET signals == qry_result[1].signals
           outer == SelectorName(FrameName, 1)
           inner == SelectorName(FrameName, 2)
       IN
       /\ \E i \in 1..Len(signals) :
             /\ signals[i].name = inner
             /\ signals[i].multiplexer_signal = Some(outer)
             /\ signals[i].multiplexer_ids = Some(<<1>>)
       /\ \E i \in 1..Len(signals) :
             /\ signals[i].multiplexer_signal = Some(inner)
             /\ signals[i].multiplexer_ids = Some(<<1>>)
       /\ \E i \in 1..Len(signals) :
             /\ signals[i].multiplexer_signal = Some(outer)
             /\ signals[i].multiplexer_ids = Some(<<2>>)

-----------------------------------------------------------------------------
(* Multiplexed PDUs with several static parts                              *)

\* largest number of static parts of one of these PDUs
MaxParts == 2

\* the PDU of a static part: plain with at most one signal, or multiplexed
\* with at most one alternative
StaticPartPdus(maxSigs) ==
    LeafPdus(1) \cup
    MuxPdus({<<>>}, Dynalts(LeafPdus(maxSigs), {FALSE}, 1), {<<>>})

\* at most one alternative, and static parts
WithStaticParts(maxParts) ==
    MuxPdus({<<>>}, Dynalts(LeafPdus(MaxSigs), {FALSE}, 1),
            SeqsUpTo(StaticPartPdus(MaxSigs), maxParts))

LoadPduWithStaticParts ==
    /\ qry_state = "ready"
    /\ \E pdu \in WithStaticParts(MaxParts) :
          Decomposed(pdu, 1, _load_pdu(pdu, FrameName, 1))

StaticPartsNext == LoadPduWithStaticParts

SpecStaticParts == FollowInit /\ [][StaticPartsNext]_vars

-----------------------------------------------------------------------------
(* Properties of the static parts' signals                                 *)

\* the decomposition of each static part's PDU, taken by itself
StaticPartsLoaded(pdu, next_selector_idx) ==
    [k \in 1..Len(pdu.statics) |->
        _load_pdu(pdu.statics[k], FrameName, next_selector_idx + 1).signals]

\* C23: the decomposition of a multiplexed PDU ends with the signals of
\* its static parts, part after part, after the selector and the signals
\* of all alternatives, and each of these signals is the one the static
\* part's own decomposition returned, multiplexer_signal and
\* multiplexer_ids included.
C23_StaticSignalsUntagged ==
    (qry_state = "returned" /\ qry_doc[1].mux) =>
        LET pdu == qry_doc[1]
            idx == qry_call[1].next_selector_idx
            signals == qry_result[1].signals
            loaded == AlternativesLoaded(pdu, idx)
            dynamic == Flattened([k \in DOMAIN loaded |->
                                     KeptOf(loaded[k].signals, pdu.selector_pos)],
                                 Len(pdu.dynalts))
            static == Flattened(StaticPartsLoaded(pdu, idx), Len(pdu.statics))
            before == Len(pdu.sigs) + 1 + Len(dynamic)
        IN
        /\ Len(signals) = before + Len(static)
        /\ signals[Len(pdu.sigs) + 1].name = SelectorName(FrameName, idx)
        /\ SubSeq(signals, before + 1, Len(signals)) = static

\* an alternative with a kept signal, then a multiplexed static part whose
\* alternative's signal carries the part's tag, then a plain static part
\* whose signal has no tag
C23_Witness ==
    /\ qry_state = "returned"
    /\ qry_doc[1].mux
    /\ Len(qry_doc[1].dynalts) = 1
    /\ Len(qry_doc[1].dynalts[1].pdu.sigs) = 2
    /\ Len(qry_doc[1].statics) = 2
    /\ qry_doc[1].statics[1].mux
    /\ ~qry_doc[1].statics[2].mux
    /\ LET signals == qry_result[1].signals IN
       /\ Len(signals) = 5
       /\ signals[2].multiplexer_signal = Some(SelectorName(FrameName, 1))
       /\ signals[3].is_multiplexer
       /\ signals[3].multiplexer_signal = None
       /\ signals[4].multiplexer_signal = Some(SelectorName(FrameName, 2))
       /\ signals[5].multiplexer_signal = None
       /\ signals[5].multiplexer_ids = None

-----------------------------------------------------------------------------
(* Documents with one system signal and its SCALE_LINEAR_AND_TEXTTABLE     *)
(* compu method                                                            *)

RationalCoeffsOf(offset, factor, denominator) ==
    Element("COMPU-RATIONAL-COEFFS", None,
            <<Values("COMPU-NUMERATOR", <<offset, factor>>),
              Values("COMPU-DENOMINATOR", <<denominator>>)>>)

NamedConst(name) ==
    Element("COMPU-CONST", None, <<Leaf("VT", <<name>>)>>)

\* no coefficients; offset 0 and factor 2; offset 10/4 and factor 1/4
MixedCoeffs ==
    {<<>>,
     <<RationalCoeffsOf(<<"0">>, <<"2">>, <<"1">>)>>,
     <<RationalCoeffsOf(<<"1", "0">>, <<"1">>, <<"4">>)>>}

\* scales without a named constant: the limits 1 and 2, each optional
RangeScales ==
    {Element("COMPU-SCALE", None, lower \o upper \o coeffs) :
        lower \in Optional("LOWER-LIMIT", {<<"1">>}),
        upper \in Optional("UPPER-LIMIT", {<<"2">>}),
        coeffs \in MixedCoeffs}

\* the named constants OFF at 0 and ON at 4
PointScales ==
    {Element("COMPU-SCALE", None,
             <<Leaf("LOWER-LIMIT", <<"0">>), Leaf("UPPER-LIMIT", <<"0">>),
               NamedConst("OFF")>>),
     Element("COMPU-SCALE", None,
             <<Leaf("LOWER-LIMIT", <<"4">>), Leaf("UPPER-LIMIT", <<"4">>),
               NamedConst("ON")>>)}

\* named constants that are no single points, and one with coefficients
OddPointScales ==
    {Element("COMPU-SCALE", None,
             <<Leaf("LOWER-LIMIT", <<"0">>), Leaf("UPPER-LIMIT", <<"1">>),
               NamedConst("ON")>>),
     Element("COMPU-SCALE", None, <<NamedConst("ON")>>),
     Element("COMPU-SCALE", None,
             <<Leaf("LOWER-LIMIT", <<"4">>), Leaf("UPPER-LIMIT", <<"4">>),
               NamedConst("ON"),
               RationalCoeffsOf(<<"0">>, <<"2">>, <<"1">>)>>)}

\* the scales of the longer documents: the named constants and the ranges
\* with both limits
CoreScales ==
    PointScales \cup
    {Element("COMPU-SCALE", None,
             <<Leaf("LOWER-LIMIT", <<"1">>), Leaf("UPPER-LIMIT", <<"2">>)>>
             \o coeffs) : coeffs \in MixedCoeffs}

\* up to one scale more than MaxScales of the core scales, or one scale of
\* any kind before or after a core scale
ScaleLists(maxScales) ==
    SeqsUpTo(CoreScales, maxScales + 1)
    \cup {<<compu_scale>> :
             compu_scale \in RangeScales \cup OddPointScales}
    \cup {<<core, compu_scale>> :
             core \in CoreScales,
             compu_scale \in RangeScales \cup OddPointScales}
    \cup {<<compu_scale, core>> :
             core \in CoreScales,
             compu_scale \in RangeScales \cup OddPointScales}

ScaleLinearDocuments(maxScales) ==
    {PackageDocument(<<SystemSignal("s", "cm"),
                       CompuMethod("cm", "SCALE_LINEAR_AND_TEXTTABLE",
                                   compu_scales)>>) :
        compu_scales \in ScaleLists(maxScales)}

LoadScaleLinearSignal ==
    /\ tt_state = "ready"
    /\ \E doc \in ScaleLinearDocuments(MaxScales) : LoadSystemSignal(doc, FALSE)

ScaleLinearNext == LoadScaleLinearSignal

SpecScaleLinear == LinearInit /\ [][ScaleLinearNext]_vars

-----------------------------------------------------------------------------
(* Properties of the SCALE_LINEAR_AND_TEXTTABLE signal                     *)

HasCoeffs(compu_scale) == HasKid(compu_scale, "COMPU-RATIONAL-COEFFS")

\* the numerators n0, n1 and the denominator d of a scale; 0, 1 and 1
\* without coefficients
CoeffsIn(compu_scale) ==
    IF ~HasCoeffs(compu_scale) THEN [n0 |-> 0, n1 |-> 1, d |-> 1]
    ELSE LET coeffs == Kid(compu_scale, "COMPU-RATIONAL-COEFFS")
             numerators == Kid(coeffs, "COMPU-NUMERATOR").kids
             denominators == Kid(coeffs, "COMPU-DENOMINATOR").kids
         IN [n0 |-> NumberOf(numerators[1].text[1]),
             n1 |-> NumberOf(numerators[2].text[1]),
             d |-> NumberOf(denominators[1].text[1])]

\* limit * n1 / d + n0 / d of a scale that has the limit, as a fraction
PhysicalLimit(compu_scale, tag) ==
    LET c == CoeffsIn(compu_scale) IN
    [num |-> NumberOf(Kid(compu_scale, tag).text[1]) * c.n1 + c.n0,
     den |-> c.d]

FractionLeq(a, b) == a.num * b.den <= b.num * a.den

SameFraction(a, b) == a.num * b.den = b.num * a.den

\* a loaded limit is the smallest (or the largest) physical limit of the
\* given scales, if any of them has that limit
LimitOver(compu_scales, among, tag, is_min, limit) ==
    LET with == {k \in among : HasKid(compu_scales[k], tag)} IN
    with # {} =>
        /\ limit # None
        /\ \E k \in with :
              /\ SameFraction(limit[1], PhysicalLimit(compu_scales[k], tag))
              /\ \A j \in with :
                    IF is_min
                    THEN FractionLeq(PhysicalLimit(compu_scales[k], tag),
                                     PhysicalLimit(compu_scales[j], tag))
                    ELSE FractionLeq(PhysicalLimit(compu_scales[j], tag),
                                     PhysicalLimit(compu_scales[k], tag))

\* the factor and the offset are those of the last of the given scales
\* that has coefficients; 1 and 0 as first assigned if no scale has any
LastCoeffsOver(compu_scales, among, properties) ==
    LET with == {k \in among : HasCoeffs(compu_scales[k])}
        last == CHOOSE k \in with : \A j \in with : j <= k
        any == \E k \in 1..Len(compu_scales) : HasCoeffs(compu_scales[k])
    IN
    IF ~any THEN properties.factor = 1 /\ properties.offset = 0
    ELSE IF with = {}
    THEN /\ SameFraction(properties.factor, [num |-> 1, den |-> 1])
         /\ SameFraction(properties.offset, [num |-> 0, den |-> 1])
    ELSE /\ SameFraction(properties.factor,
                         [num |-> CoeffsIn(compu_scales[last]).n1,
                          den |-> CoeffsIn(compu_scales[last]).d])
         /\ SameFraction(properties.offset,
                         [num |-> CoeffsIn(compu_scales[last]).n0,
                          den |-> CoeffsIn(compu_scales[last]).d])

\* the properties of a loaded signal, with the given scales determining
\* the factor, the offset and the limits
ScaleLinearLoaded(compu_scales, among, properties) ==
    /\ properties.choices # None
    /\ ChoicesOfScales(compu_scales, properties.choices[1])
    /\ \A k \in Named(compu_scales) :
          KidText(compu_scales[k], "LOWER-LIMIT")
             = KidText(compu_scales[k], "UPPER-LIMIT")
    /\ LastCoeffsOver(compu_scales, among, properties)
    /\ LimitOver(compu_scales, among, "LOWER-LIMIT", TRUE, properties.minimum)
    /\ LimitOver(compu_scales, among, "UPPER-LIMIT", FALSE, properties.maximum)

MixedScales == NodeAt(tt_doc[1], CompuScalesPos).kids

\* C24 as claimed: the scales with a named constant are single points and
\* become the choices, keyed by their raw value; the factor and the offset
\* are those of the last of the other scales that has coefficients, and the
\* minimum and the maximum are the smallest and the largest physical limit
\* of the other scales.
C24_OtherScalesDetermine ==
    tt_state = "done" =>
        ScaleLinearLoaded(MixedScales,
                          (1..Len(MixedScales)) \ Named(MixedScales),
                          tt_result[1])

\* C24 amended: the scales with a named constant are single points and
\* become the choices, keyed by their raw value; the factor and the offset
\* are those of the last scale that has coefficients, and the minimum and
\* the maximum are the smallest and the largest physical limit of all the
\* scales, those with a named constant included, each limit taken through
\* its own scale's coefficients (factor 1 and offset 0 without any).
C24_AllScalesDetermine ==
    tt_state = "done" =>
        ScaleLinearLoaded(MixedScales, 1..Len(MixedScales), tt_result[1])

\* a range from 1 to 2 with factor 2, the constant ON at 4, and a range
\* from 1 to 2 with offset 2.5 and factor 0.25: the maximum is the
\* constant's 4
C24_Witness ==
    /\ tt_state = "done"
    /\ Len(MixedScales) = 3
    /\ Named(MixedScales) = {2}
    /\ HasCoeffs(MixedScales[1])
    /\ HasCoeffs(MixedScales[3])
    /\ 4 \in DOMAIN tt_result[1].choices[1]
    /\ tt_result[1].factor = Float(1, 4)
    /\ tt_result[1].offset = Float(10, 4)
    /\ tt_result[1].minimum = Some(Float(2, 1))
    /\ tt_result[1].maximum = Some(Float(4, 1))

-----------------------------------------------------------------------------
(* The initial value of a signal: lines 589-608 of _load_signal on the     *)
(* text that _load_arxml_init_value_string has returned                    *)

\* largest number of characters of a generated numeric text
MaxInitialChars == 3

\* numeric texts and near misses, and the spellings of true and false
InitialTexts(maxChars) ==
    UNION {[1..n -> {"0", "1", "9", "x", "-", " "}] : n \in 1..maxChars}
    \cup {<<"t", "r", "u", "e">>, <<"T", "r", "u", "e">>,
          <<" ", "T", "R", "U", "E">>, <<"f", "a", "l", "s", "e">>,
          <<"F", "A", "L", "S", "E", " ">>, <<"t", "r", "u">>}

\* no choices, or the values 1 and 8 named
InitialChoices ==
    {None,
     Some((1 :> NamedSignalValue(1, Some(<<"ON">>), None))
          @@ (8 :> NamedSignalValue(8, Some(<<"MAX">>), None)))}

InitialFactors == {1, 2}

InitialOffsets == {0, 3}

ConvertInitial ==
    /\ qry_state = "ready"
    /\ \E initial \in InitialTexts(MaxInitialChars), choices \in InitialChoices,
          is_float \in BOOLEAN, factor \in InitialFactors,
          offset \in InitialOffsets :
          Queried(initial,
                  [choices |-> choices, is_float |-> is_float,
                   factor |-> factor, offset |-> offset],
                  Ok(TRUE),
                  InitialOf(Ok(Some(initial)), choices, is_float, factor,
                            offset))

InitialNext == ConvertInitial

SpecInitial == FollowInit /\ [][InitialNext]_vars

-----------------------------------------------------------------------------
(* Properties of the initial value                                         *)

\* the text is a raw key of the signal's choices
MatchesChoice(initial, choices) ==
    /\ choices # None
    /\ parse_int_string(initial).err = ""
    /\ parse_int_string(initial).val \in DOMAIN choices[1]

\* the text is a spelling of a word, blanks around it aside
Spells(initial, word) == LowerChars(Strip(initial)) = word

InitialReturned(type, value) ==
    /\ qry_state = "returned"
    /\ qry_result[1].val # None
    /\ qry_result[1].val[1].type = type
    /\ qry_result[1].val[1].value = value

\* C25: the initial text is interpreted in this order: a text that is a
\* raw key of the choices gives the choice, for float signals as well;
\* else the text of a float signal is read as a float and scaled; else a
\* spelling of true or false gives the boolean; else the text is read as
\* an integer of the base it shows, a leading 0 before a digit being
\* octal, and scaled.  A text that cannot be read in its case raises.
C25_InitialPriority ==
    qry_state \in {"returned", "raised"} =>
        LET initial == qry_doc[1]
            call == qry_call[1]
            int == parse_int_string(initial)
            float == PyFloat(Strip(initial))
        IN
        IF MatchesChoice(initial, call.choices)
        THEN InitialReturned("NamedSignalValue", call.choices[1][int.val])
        ELSE IF call.is_float
        THEN IF float.err = ""
             THEN InitialReturned("float",
                                  float.val * call.factor + call.offset)
             ELSE qry_state = "raised"
        ELSE IF Spells(initial, <<"t", "r", "u", "e">>)
        THEN InitialReturned("bool", TRUE)
        ELSE IF Spells(initial, <<"f", "a", "l", "s", "e">>)
        THEN InitialReturned("bool", FALSE)
        ELSE IF int.err = ""
        THEN InitialReturned("int", int.val * call.factor + call.offset)
        ELSE qry_state = "raised"

\* the text 010 of a float signal whose choices name the value 8: the
\* choice, not the float 10
C25_Witness ==
    /\ qry_state = "returned"
    /\ qry_doc[1] = <<"0", "1", "0">>
    /\ qry_call[1].is_float
    /\ qry_call[1].choices # None
    /\ qry_result[1].val[1].type = "NamedSignalValue"
    /\ qry_result[1].val[1].value.value = 8

\* the same text without choices: the float 10 scaled by 2 and offset by 3
C25_WitnessFloat ==
    /\ qry_state = "returned"
    /\ qry_doc[1] = <<"0", "1", "0">>
    /\ qry_call[1].is_float
    /\ qry_call[1].choices = None
    /\ qry_result[1].val = Some(PyValue("float", 23))

\* the same text of an integer signal: octal 8 scaled by 2 and offset by 3
C25_WitnessOctal ==
    /\ qry_state = "returned"
    /\ qry_doc[1] = <<"0", "1", "0">>
    /\ ~qry_call[1].is_float
    /\ qry_call[1].choices = None
    /\ qry_result[1].val = Some(PyValue("int", 19))

C25_WitnessBool ==
    /\ qry_state = "returned"
    /\ qry_doc[1] = <<" ", "T", "R", "U", "E">>
    /\ qry_call[1].choices # None
    /\ qry_result[1].val = Some(PyValue("bool", TRUE))

\* a text that is no integer, of an integer signal
C25_WitnessRaised ==
    /\ qry_state = "raised"
    /\ qry_doc[1] = <<"0", "9">>
    /\ ~qry_call[1].is_float

-----------------------------------------------------------------------------
(* System descriptions with a tree of packages                             *)
(*                                                                         *)
(* The top-level packages are /p and /t; /p has the sub-packages /p/q and  *)
(* /p/r, and /p/q the sub-package /p/q/s.  Each package has a CAN cluster; *)
(* the elements of all frames are in /p.  A placement gives the package of *)
(* the frame triggering of each frame, 0 for a frame without one.          *)

\* number of frames of a generated package tree
MaxFrames == 3

\* the packages are numbered /p, /p/q, /p/q/s, /p/r, /t
Placements(maxFrames) == [1..maxFrames -> 0..5]

\* the frames whose triggering a package holds, ascending or descending
PlacedIn(placement, slot, descending) ==
    LET up == SelectSeq([n \in DOMAIN placement |-> n],
                        LAMBDA n : placement[n] = slot)
    IN IF descending THEN [i \in DOMAIN up |-> up[Len(up) + 1 - i]] ELSE up

\* a CAN cluster with the frame triggerings of the given frames
TreeCluster(v4, frames) ==
    LET can_frame_triggerings ==
            [i \in DOMAIN frames |-> FrameTriggering(v4, frames[i], LeadingRefs)]
    IN
    NamedElement("CAN-CLUSTER", "cl",
      IF v4
      THEN <<Element("CAN-CLUSTER-VARIANTS", None,
               <<Element("CAN-CLUSTER-CONDITIONAL", None,
                   <<Element("PHYSICAL-CHANNELS", None,
                       <<NamedElement("CAN-PHYSICAL-CHANNEL", "ch",
                           <<Element("FRAME-TRIGGERINGS", None,
                               can_frame_triggerings)>>)>>)>>)>>)>>
      ELSE <<Element("PHYSICAL-CHANNELS", None,
               <<NamedElement("PHYSICAL-CHANNEL", "ch",
                   <<Element("FRAME-TRIGGERINGSS", None,
                       can_frame_triggerings)>>)>>)>>)

\* a package: its elements and its sub-packages, in either order
TreePackage(v4, name, elements, packages, packages_first) ==
    LET own == <<Element("ELEMENTS", None, elements)>>
        sub == IF packages = <<>> THEN <<>>
               ELSE <<Element(IF v4 THEN "AR-PACKAGES" ELSE "SUB-PACKAGES",
                              None, packages)>>
    IN NamedElement("AR-PACKAGE", name,
                    IF packages_first THEN sub \o own ELSE own \o sub)

RECURSIVE AllFrameElements(_, _)
AllFrameElements(v4, n) ==
    IF n = 0 THEN <<>>
    ELSE AllFrameElements(v4, n - 1) \o FrameElements(v4, n, LeadingRefs)

PackageTreeDocument(v4, placement, descending, packages_first) ==
    LET Cluster(slot) ==
            TreeCluster(v4, PlacedIn(placement, slot, descending))
        s == TreePackage(v4, "s", <<Cluster(3)>>, <<>>, packages_first)
        q == TreePackage(v4, "q", <<Cluster(2)>>, <<s>>, packages_first)
        r == TreePackage(v4, "r", <<Cluster(4)>>, <<>>, packages_first)
        p == TreePackage(v4, "p",
                         <<Cluster(1)>>
                         \o AllFrameElements(v4, Len(placement)),
                         <<q, r>>, packages_first)
        t == TreePackage(v4, "t", <<Cluster(5)>>, <<>>, packages_first)
    IN Element("AUTOSAR", None,
         <<Element(IF v4 THEN "AR-PACKAGES" ELSE "TOP-LEVEL-PACKAGES", None,
                   <<p, t>>)>>)

PackageTreeDocuments(v4, maxFrames) ==
    {PackageTreeDocument(v4, placement, descending, packages_first) :
        placement \in Placements(maxFrames), descending \in BOOLEAN,
        packages_first \in BOOLEAN}

LoadPackageTree ==
    /\ load_state = "ready"
    /\ \E doc \in PackageTreeDocuments(autosar_version_newer(4, None, None),
                                       MaxFrames) :
          ConstructedAndLoaded(doc, _create_arxml_reference_dicts(doc))

PackageTreeNext == LoadPackageTree

SpecPackageTree == LoadInit /\ [][PackageTreeNext]_vars

-----------------------------------------------------------------------------
(* Properties of the order of the messages                                 *)

PackageListTags == {"AR-PACKAGES", "SUB-PACKAGES", "TOP-LEVEL-PACKAGES"}

KidsOf(doc, pos) ==
    [i \in 1..Len(NodeAt(doc, pos).kids) |-> Append(pos, i)]

\* the frame triggerings below an element in document order, those of
\* packages further down left out
RECURSIVE TriggeringsUnder(_, _)
TriggeringsUnder(doc, pos) ==
    IF NodeAt(doc, pos).tag \in PackageListTags THEN <<>>
    ELSE (IF NodeAt(doc, pos).tag = "CAN-FRAME-TRIGGERING" THEN <<pos>>
          ELSE <<>>)
         \o Flattened([i \in 1..Len(NodeAt(doc, pos).kids) |->
                          TriggeringsUnder(doc, Append(pos, i))],
                      Len(NodeAt(doc, pos).kids))

\* the packages of the package lists of an element, in document order
PackagesBelow(doc, pos) ==
    LET lists == SelectSeq(KidsOf(doc, pos),
                           LAMBDA k : NodeAt(doc, k).tag \in PackageListTags)
    IN Flattened([i \in 1..Len(lists) |->
                     SelectSeq(KidsOf(doc, lists[i]),
                               LAMBDA k : NodeAt(doc, k).tag = "AR-PACKAGE")],
                 Len(lists))

\* the frame triggerings of a package, then those of its sub-packages
RECURSIVE PreOrderOf(_, _)
PreOrderOf(doc, package) ==
    TriggeringsUnder(doc, package)
    \o Flattened([i \in 1..Len(PackagesBelow(doc, package)) |->
                     PreOrderOf(doc, PackagesBelow(doc, package)[i])],
                 Len(PackagesBelow(doc, package)))

\* the frame triggerings of the document in the pre-order of its packages
PreOrder(doc) ==
    Flattened([i \in 1..Len(PackagesBelow(doc, <<>>)) |->
                  PreOrderOf(doc, PackagesBelow(doc, <<>>)[i])],
              Len(PackagesBelow(doc, <<>>)))

IdentifierOf(doc, can_frame_triggering) ==
    parse_int_string(FindText(doc, can_frame_triggering, "IDENTIFIER")[1]).val

\* C26: the messages of a loaded database are those of the frame
\* triggerings of the document, one message for each, in the pre-order of
\* the package tree: the triggerings of a package in document order, then
\* those of its sub-packages, package after package.
C26_MessagesInPreOrder ==
    load_state = "done" =>
        LET expected == PreOrder(load_doc[1]) IN
        /\ Len(load_messages) = Len(expected)
        /\ Len(expected)
              = Cardinality({pos \in Positions(load_doc[1]) :
                    NodeAt(load_doc[1], pos).tag = "CAN-FRAME-TRIGGERING"})
        /\ \A i \in 1..Len(expected) :
              load_messages[i].frame_id = IdentifierOf(load_doc[1], expected[i])

\* the package lists come first in each package; the triggering of frame
\* 3 is in /p, the one of frame 1 in /p/q/s and the one of frame 2 in /p/r
C26_Witness ==
    /\ load_state = "done"
    /\ Len(load_messages) = 3
    /\ [i \in 1..3 |-> load_messages[i].frame_id] = <<3, 1, 2>>
    /\ LET expected == PreOrder(load_doc[1]) IN
       /\ Len(expected[1]) < Len(expected[3])
       /\ Len(expected[3]) < Len(expected[2])
       /\ expected[2][3] < expected[1][3]

-----------------------------------------------------------------------------
(* The reference index of a constructed loader                             *)
(*                                                                         *)
(* The constructor builds the four dictionaries; load and                  *)
(* _follow_arxml_reference reach them through dict.get and dict[key] only. *)

\* a dictionary that stores an empty entry for every key it is asked for
Read_inserting(dict, key) ==
    IF key \in DOMAIN dict THEN dict ELSE DictSet(dict, key, <<>>)

\* dict.get(key), dict.get(key, {}) and dict[key]: the dictionary afterwards
Read(dict, key) == dict

\* the maps after one of the dictionaries has been read
MapsRead(maps, name, key) == [maps EXCEPT ![name] = Read(@, key)]

\* the maps after the loop over the prefixes of the base path
RECURSIVE MapsAfterClosestBase(_, _, _, _, _)
MapsAfterClosestBase(doc, maps, base_path, i, refbase_name) ==
    IF i = 0 THEN maps
    ELSE IF ~MayDeclareBase(doc, maps, SubSeq(base_path, 1, i))
    THEN MapsAfterClosestBase(doc,
             MapsRead(maps, "arxml_path_to_node", SubSeq(base_path, 1, i)),
             base_path, i - 1, refbase_name)
    ELSE IF BaseOf(maps, SubSeq(base_path, 1, i), refbase_name) # None
    THEN MapsRead(MapsRead(maps, "arxml_path_to_node",
                           SubSeq(base_path, 1, i)),
                  IF refbase_name = None THEN "package_default_refbase_path"
                  ELSE "package_refbase_paths",
                  SubSeq(base_path, 1, i))
    ELSE MapsAfterClosestBase(doc,
             MapsRead(MapsRead(maps, "arxml_path_to_node",
                               SubSeq(base_path, 1, i)),
                      IF refbase_name = None
                      THEN "package_default_refbase_path"
                      ELSE "package_refbase_paths",
                      SubSeq(base_path, 1, i)),
             base_path, i - 1, refbase_name)

\* the maps after _follow_arxml_reference
MapsAfterFollow(doc, maps, base_elem, arxml_path, refbase_name) ==
    IF IsAbsolute(arxml_path)
    THEN MapsRead(maps, "arxml_path_to_node", arxml_path)
    ELSE LET base_path == maps.node_to_arxml_path[base_elem]
             refbase_path == ClosestBase(doc, maps, base_path,
                                         Len(base_path), refbase_name)
             looked == MapsAfterClosestBase(
                           doc, MapsRead(maps, "node_to_arxml_path", base_elem),
                           base_path, Len(base_path), refbase_name)
         IN IF refbase_path = None THEN looked
            ELSE MapsRead(looked, "arxml_path_to_node",
                          refbase_path[1] \o arxml_path)

\* the reference elements below an element that a load may follow, in
\* document order
RECURSIVE FollowedRefsUnder(_, _)
FollowedRefsUnder(doc, pos) ==
    (IF NodeAt(doc, pos).tag \in FollowedRefTags THEN <<pos>> ELSE <<>>)
    \o Flattened([i \in 1..Len(NodeAt(doc, pos).kids) |->
                     FollowedRefsUnder(doc, Append(pos, i))],
                 Len(NodeAt(doc, pos).kids))

FollowedRefs(doc) == FollowedRefsUnder(doc, <<>>)

\* the maps after a load: the load reaches the maps by following reference
\* elements
RECURSIVE MapsAfterLoad(_, _, _)
MapsAfterLoad(doc, maps, refs) ==
    IF refs = <<>> THEN maps
    ELSE MapsAfterLoad(doc,
             MapsAfterFollow(doc, maps, Parent(Head(refs)),
                             NodeAt(doc, Head(refs)).text[1],
                             NodeAt(doc, Head(refs)).base),
             Tail(refs))

\* the reference kinds of the system descriptions of a constructed loader
LoaderRefKinds == {"relative", "nowhere"}

\* the declarations of the reference bases of the loader documents
LoaderPlans ==
    {plan \in BasePlans : plan["x"] \in {"none", "default"}}

LoaderDocuments(v4, kinds) ==
    {SystemDocument(v4, 1, 2, <<LeadingRefs, refs>>) :
        refs \in FrameRefs(kinds)}
    \cup {NestedDocument(outer, inner) :
             outer \in LoaderPlans, inner \in LoaderPlans}

\* the arguments of a reference resolution: a relative path, an absolute
\* one, and dangling ones
LoaderPaths == {<<"t">>, <<"zz">>, <<"", "a", "t">>, <<"", "nowhere">>}

LoaderInit ==
    /\ LdInit
    /\ IdxInit
    /\ QryInit
    /\ MsgIdle /\ TtIdle /\ EcuIdle /\ LogIdle

\* SystemLoader(root, strict)
ConstructIndexedLoader ==
    /\ idx_state = "ready"
    /\ \E doc \in LoaderDocuments(autosar_version_newer(4, None, None),
                                  LoaderRefKinds) :
         LET index == _create_arxml_reference_dicts(doc) IN
         /\ idx_doc' = Some(doc)
         /\ idx_maps' = index.maps
         /\ idx_error' = index.err
         /\ idx_state' = IF index.err # "" THEN "error" ELSE "built"
    /\ UNCHANGED <<idx_stack, verVars, msgVars, loadVars, ttVars, ecuVars,
                 qryVars, logVars>>

\* loader.load()
LoadOfLoader ==
    /\ idx_state = "built"
    /\ load_state = "ready"
    /\ load_doc' = idx_doc
    /\ LoadReturning(load(idx_doc[1], idx_maps,
                          autosar_version_newer(4, None, None)))
    /\ idx_maps' = MapsAfterLoad(idx_doc[1], idx_maps,
                                 FollowedRefs(idx_doc[1]))
    /\ UNCHANGED <<idx_doc, idx_stack, idx_state, idx_error, verVars,
                 msgVars, ttVars, ecuVars, qryVars, logVars>>

\* loader._follow_arxml_reference(base_elem, arxml_path, 'I-SIGNAL',
\* refbase_name)
FollowOfLoader ==
    /\ idx_state = "built"
    /\ qry_state = "ready"
    /\ \E base_elem \in {n \in Positions(idx_doc[1]) :
                           NodeAt(idx_doc[1], n).tag
                              \in {"I-SIGNAL-TRIGGERING",
                                   "CAN-FRAME-TRIGGERING"}},
          arxml_path \in LoaderPaths, refbase_name \in RefbaseNames :
         LET result == _follow_arxml_reference(idx_doc[1], idx_maps,
                           base_elem, arxml_path, Some("I-SIGNAL"),
                           refbase_name)
         IN
         /\ qry_doc' = idx_doc
         /\ qry_call' = Some([base_elem |-> base_elem,
                              arxml_path |-> arxml_path,
                              dest_tag_name |-> Some("I-SIGNAL"),
                              refbase_name |-> refbase_name])
         /\ qry_state' = IF result.err # "" THEN "raised" ELSE "returned"
         /\ qry_result' = Some(result)
         /\ idx_maps' = MapsAfterFollow(idx_doc[1], idx_maps, base_elem,
                                        arxml_path, refbase_name)
    /\ UNCHANGED <<idx_doc, idx_stack, idx_state, idx_error, verVars,
                 msgVars, loadVars, ttVars, ecuVars, logVars>>

LoaderNext == ConstructIndexedLoader \/ LoadOfLoader \/ FollowOfLoader

SpecLoader == LoaderInit /\ [][LoaderNext]_vars

-----------------------------------------------------------------------------
(* Properties of the index of a constructed loader                         *)

\* C27: once the constructor has built the four dictionaries of the
\* reference index, no step of the loader changes any of them: a load and
\* a reference resolution, whether it returns a node, returns None or
\* raises, leave them as they are.
C27_IndexNeverChanges ==
    [][idx_state = "built" => idx_maps' = idx_maps]_vars

\* a load and a resolution that raised for an unknown reference base have
\* taken place on an index with all four dictionaries filled
C27_Witness ==
    /\ idx_state = "built"
    /\ load_state = "done"
    /\ qry_state = "raised"
    /\ qry_call[1].refbase_name = Some(<<"z">>)
    /\ \A name \in DOMAIN idx_maps : idx_maps[name] # <<>>

\* a load was aborted by a dangling reference and a resolution of a
\* dangling path returned None
C27_WitnessDangling ==
    /\ idx_state = "built"
    /\ load_state = "aborted"
    /\ qry_state = "returned"
    /\ qry_call[1].arxml_path = <<"", "nowhere">>
    /\ qry_result[1].val = None

-----------------------------------------------------------------------------
(* Documents for the type of a signal                                      *)

\* the texts of BASE-TYPE-ENCODING; "" for a base type without the element
\* and "no base type" for an I-SIGNAL without NETWORK-REPRESENTATION-PROPS
Encodings ==
    {"2C", "1C", "SM", "IEEE754", "NONE", "BOOLEAN", "2c", "",
     "no base type"}

SwBaseType(encoding) ==
    NamedElement("SW-BASE-TYPE", "bt",
                 IF encoding = "" THEN <<>>
                 ELSE <<Leaf("BASE-TYPE-ENCODING", <<encoding>>)>>)

\* the I-SIGNAL of the first frame with a reference to the base type
TypedISignal(v4, encoding) ==
    [ISignal(v4, 1, LeadingRefs) EXCEPT
        !.kids = @ \o
            IF encoding = "no base type" THEN <<>>
            ELSE <<Element("NETWORK-REPRESENTATION-PROPS", None,
                     <<Element("SW-DATA-DEF-PROPS-VARIANTS", None,
                         <<Element("SW-DATA-DEF-PROPS-CONDITIONAL", None,
                             <<RefTo("absolute", "BASE-TYPE", "SW-BASE-TYPE",
                                     <<"bt">>)>>)>>)>>)>>]

\* a system description with one frame whose signal has the encoding
TypedSystemDocument(v4, encoding) ==
    Element("AUTOSAR", None,
      <<Element(IF v4 THEN "AR-PACKAGES" ELSE "TOP-LEVEL-PACKAGES", None,
          <<NamedElement("AR-PACKAGE", "p",
              <<Element("ELEMENTS", None,
                    <<CanCluster(v4, "cl",
                                 FrameTriggering(v4, 1, LeadingRefs)),
                      Frame(v4, 1, LeadingRefs), Pdu(v4, 1, LeadingRefs),
                      TypedISignal(v4, encoding),
                      FrameSystemSignal(v4, 1, LeadingRefs),
                      ConstantSpecification(v4, 1),
                      SwBaseType(encoding)>>)>>)>>)>>)

\* largest number of ComSignalType parameters of a generated container
MaxTypes == 2

ComSignalTypes ==
    {"SINT8", "SINT16", "SINT32", "FLOAT32", "FLOAT64", "UINT8", "BOOLEAN"}

\* the ComSignal container of the first PDU with the given ComSignalType
\* parameters
TypedComSignal(types) ==
    ContainerValue(Nth("Signal", 1), "Com", <<"ComConfig", "ComSignal">>,
        <<Element("PARAMETER-VALUES", None,
            <<ParameterValue("Com", <<"ComConfig", "ComSignal",
                                      "ComBitPosition">>, <<"8">>),
              ParameterValue("Com", <<"ComConfig", "ComSignal",
                                      "ComBitSize">>, <<"1", "6">>),
              ParameterValue("Com", <<"ComConfig", "ComSignal",
                                      "ComSignalEndianness">>,
                             <<"LITTLE_ENDIAN">>)>>
            \o [i \in DOMAIN types |->
                   ParameterValue("Com", <<"ComConfig", "ComSignal",
                                           "ComSignalType">>,
                                  <<types[i]>>)])>>,
        <<>>)

\* an extract with one PDU that is sent, with all attributes of its frame
SentPdu ==
    [direction |-> "SEND", cfg |-> "Tx", list |-> TRUE,
     attributes |-> FrameAttributes]

TypedExtract(types) ==
    Element("AUTOSAR", None,
      <<Element("AR-PACKAGES", None,
        <<NamedElement("AR-PACKAGE", "Pkg",
          <<Element("ELEMENTS", None,
            <<NamedElement("ECUC-VALUE-COLLECTION", "Extract",
                <<Element("ECUC-VALUES", None,
                    <<ModuleRef("CanIf"), ModuleRef("Com")>>)>>),
              ModuleConfiguration("Com", "ComConfig",
                  <<ComIPdu(1, SentPdu), TypedComSignal(types)>>),
              ModuleConfiguration("CanIf", "CanIfInitCfg",
                  <<CanIfPduCfg(1, SentPdu)>>)>>)>>)>>)>>)

TypedExtracts(maxTypes) ==
    {TypedExtract(types) : types \in SeqsUpTo(ComSignalTypes, maxTypes)}

SignalTypeInit ==
    /\ LdInit
    /\ EcuStart
    /\ MsgIdle /\ IdxIdle /\ TtIdle /\ QryIdle /\ LogIdle

\* SystemLoader(root, strict).load()
LoadTypedSystem ==
    /\ load_state = "ready"
    /\ \E encoding \in Encodings :
         LET doc == TypedSystemDocument(autosar_version_newer(4, None, None),
                                        encoding)
         IN ConstructedAndLoaded(doc, _create_arxml_reference_dicts(doc))

\* EcuExtractLoader(root, strict).load()
LoadTypedExtract ==
    /\ ecu_state = "ready"
    /\ \E doc \in TypedExtracts(MaxTypes) : EcuReturning(doc, ecu_load(doc))

SignalTypeNext == LoadTypedSystem \/ LoadTypedExtract

SpecSignalType == SignalTypeInit /\ [][SignalTypeNext]_vars

-----------------------------------------------------------------------------
(* Properties of the type of a signal                                      *)

\* the signals of a list of messages
AllSignalsOf(messages) ==
    UNION {{messages[i].signals[j] : j \in DOMAIN messages[i].signals} :
              i \in DOMAIN messages}

\* the text of the BASE-TYPE-ENCODING elements of the loaded document
EncodingsOf(doc) ==
    {NodeAt(doc, pos).text : pos \in {p \in Positions(doc) :
                                 NodeAt(doc, p).tag = "BASE-TYPE-ENCODING"}}

\* the values of the ComSignalType parameters of the loaded extract
ComSignalTypesOf(doc) ==
    UNION {ValuesOf(doc, pos, "ComSignalType", "VALUE") :
              pos \in {p \in Positions(doc) :
                          /\ NodeAt(doc, p).tag = "ECUC-CONTAINER-VALUE"
                          /\ Defines(doc, p, "ComSignal")}}

\* C28: a signal of either loader is not both signed and float.  A signal
\* of the system loader is signed for the encodings 2C, 1C and SM and float
\* for IEEE754; a signal of the extract loader is signed when its container
\* has a ComSignalType SINT8, SINT16 or SINT32 and float when it has
\* FLOAT32 or FLOAT64.
C28_SignedOrFloat ==
    /\ \A signal \in AllSignalsOf(load_messages) :
          /\ ~(signal.is_signed /\ signal.is_float)
          /\ signal.is_signed
                <=> EncodingsOf(load_doc[1])
                       \subseteq {Some(<<"2C">>), Some(<<"1C">>),
                                  Some(<<"SM">>)}
                    /\ EncodingsOf(load_doc[1]) # {}
          /\ signal.is_float
                <=> EncodingsOf(load_doc[1]) = {Some(<<"IEEE754">>)}
    /\ \A signal \in AllSignalsOf(ecu_messages) :
          ~(signal.is_signed /\ signal.is_float)

\* the signals of the system loader have the type of their encoding
C28_SystemSignalTypes ==
    \A signal \in AllSignalsOf(load_messages) :
        /\ ~(signal.is_signed /\ signal.is_float)
        /\ signal.is_signed
              <=> /\ EncodingsOf(load_doc[1]) # {}
                  /\ EncodingsOf(load_doc[1])
                        \subseteq {Some(<<"2C">>), Some(<<"1C">>),
                                   Some(<<"SM">>)}
        /\ signal.is_float
              <=> EncodingsOf(load_doc[1]) = {Some(<<"IEEE754">>)}

\* the signals of the extract loader have the types of all their
\* ComSignalType parameters
C28_ExtractSignalTypes ==
    \A signal \in AllSignalsOf(ecu_messages) :
        /\ signal.is_signed
              <=> ComSignalTypesOf(ecu_doc[1])
                     \cap {Some(<<"SINT8">>), Some(<<"SINT16">>),
                          Some(<<"SINT32">>)} # {}
        /\ signal.is_float
              <=> ComSignalTypesOf(ecu_doc[1])
                     \cap {Some(<<"FLOAT32">>), Some(<<"FLOAT64">>)} # {}

\* a signal of an extract that is both signed and float
C28_WitnessBoth ==
    \E signal \in AllSignalsOf(ecu_messages) :
        signal.is_signed /\ signal.is_float

\* a signal of a system description that is signed, and one that is float
C28_WitnessSigned ==
    \E signal \in AllSignalsOf(load_messages) :
        signal.is_signed /\ EncodingsOf(load_doc[1]) = {Some(<<"SM">>)}

C28_WitnessFloat ==
    \E signal \in AllSignalsOf(load_messages) :
        signal.is_float /\ ~signal.is_signed

\* a base type without encoding aborts the load
C28_WitnessNoEncoding ==
    /\ load_state = "aborted"
    /\ load_error = "NameError"

-----------------------------------------------------------------------------
(* logreader: the four candump patterns                                    *)
(*                                                                         *)
(* A line is the list of its characters.  Each pattern is matched by a     *)
(* scan from the left: wherever a repetition is followed by an element, no *)
(* character of the repeated class can start that element, so a repetition *)
(* takes the longest run.  X.match(line) returns None for a line that      *)
(* does not match and the DataFrame of unpack otherwise, unless unpack     *)
(* raises.                                                                 *)

DecimalDigits == {"0", "1", "2", "3", "4", "5", "6", "7", "8", "9"}

UpperHexDigits == DecimalDigits \cup {"A", "B", "C", "D", "E", "F"}

\* [a-zA-Z0-9]
AlphaNumerics ==
    DecimalDigits
    \cup {"a", "b", "c", "d", "e", "f", "g", "h", "i", "j", "k", "l", "m",
          "n", "o", "p", "q", "r", "s", "t", "u", "v", "w", "x", "y", "z"}
    \cup {"A", "B", "C", "D", "E", "F", "G", "H", "I", "J", "K", "L", "M",
          "N", "O", "P", "Q", "R", "S", "T", "U", "V", "W", "X", "Y", "Z"}

\* \s
WhitespaceChars == {" ", "\t", "\n", "\r", "\f"}

\* the index after the longest run of characters of a class from index i
RECURSIVE RunEnd(_, _, _)
RunEnd(line, i, class) ==
    IF i <= Len(line) /\ line[i] \in class THEN RunEnd(line, i + 1, class)
    ELSE i

\* the character at an index is the given one
IsAt(line, i, char) == i <= Len(line) /\ line[i] = char

\* $: the end of the line, or the place before a newline that ends it
AtEnd(line, i) ==
    \/ i = Len(line) + 1
    \/ i = Len(line) /\ line[i] = "\n"

Slice(line, from, to) == SubSeq(line, from, to - 1)

\* \s+\[\d+\]\s*(?P<can_data>[0-9A-F ]*)$ from index i on: the data, or
\* None
BracketedData(line, i) ==
    LET a == RunEnd(line, i, WhitespaceChars)
        b == RunEnd(line, a + 1, DecimalDigits)
        c == RunEnd(line, b + 1, WhitespaceChars)
        d == RunEnd(line, c, UpperHexDigits \cup {" "})
    IN  IF /\ a > i /\ IsAt(line, a, "[")
           /\ b > a + 1 /\ IsAt(line, b, "]")
           /\ AtEnd(line, d)
        THEN Some(Slice(line, c, d))
        ELSE None

\* #(#[0-9A-F])?(?P<can_data>[0-9A-F]*)$ from index i on: the data, or None
HashedData(line, i) ==
    LET a == IF IsAt(line, i + 1, "#") THEN i + 3 ELSE i + 1
        d == RunEnd(line, a, UpperHexDigits)
    IN  IF /\ IsAt(line, i, "#")
           /\ IsAt(line, i + 1, "#")
                 => i + 2 <= Len(line) /\ line[i + 2] \in UpperHexDigits
           /\ AtEnd(line, d)
        THEN Some(Slice(line, a, d))
        ELSE None

\* (?P<channel>[a-zA-Z0-9]+)\s+(?P<can_id>[0-9A-F]+) from index i on and
\* then the data, bracketed or hashed: the groups, or None
ChannelIdData(line, i, hashed) ==
    LET a == RunEnd(line, i, AlphaNumerics)
        b == RunEnd(line, a, WhitespaceChars)
        c == RunEnd(line, b, UpperHexDigits)
        can_data == IF hashed THEN HashedData(line, c)
                    ELSE BracketedData(line, c)
    IN  IF a > i /\ b > a /\ c > b /\ can_data # None
        THEN Some([channel |-> Slice(line, i, a),
                   can_id |-> Slice(line, b, c),
                   can_data |-> can_data[1]])
        ELSE None

\* ^\s*?\((?P<timestamp>...)\)\s+ and then channel, id and data; the
\* timestamp is a run of a class, or a date and a time
Stamped(line, hashed, dated) ==
    LET a == RunEnd(line, 1, WhitespaceChars)
        D(i, n) == /\ i + n - 1 <= Len(line)
                   /\ \A k \in i..(i + n - 1) : line[k] \in DecimalDigits
        \* \d{4}-\d{2}-\d{2} \d{2}:\d{2}:\d{2}\.\d+ takes 20 characters
        \* and the rest of a run of digits
        b == IF ~dated THEN RunEnd(line, a + 1, DecimalDigits \cup {"."})
             ELSE IF /\ D(a + 1, 4) /\ IsAt(line, a + 5, "-")
                     /\ D(a + 6, 2) /\ IsAt(line, a + 8, "-")
                     /\ D(a + 9, 2) /\ IsAt(line, a + 11, " ")
                     /\ D(a + 12, 2) /\ IsAt(line, a + 14, ":")
                     /\ D(a + 15, 2) /\ IsAt(line, a + 17, ":")
                     /\ D(a + 18, 2) /\ IsAt(line, a + 20, ".")
             THEN RunEnd(line, a + 21, DecimalDigits)
             ELSE a + 1
        c == RunEnd(line, b + 1, WhitespaceChars)
        rest == ChannelIdData(line, c, hashed)
    IN  IF /\ IsAt(line, a, "(")
           /\ IF dated THEN b > a + 21 ELSE b > a + 1
           /\ IsAt(line, b, ")")
           /\ c > b + 1
           /\ rest # None
        THEN Some(rest[1] @@ [timestamp |-> Slice(line, a + 1, b)])
        ELSE None

PatternNames ==
    <<"CandumpDefaultPattern", "CandumpTimestampedPattern",
      "CandumpDefaultLogPattern", "CandumpAbsoluteLogPattern">>

\* clz.pattern.match(line): the groups of the match, or None
PatternMatch(clz, line) ==
    CASE clz = "CandumpDefaultPattern" ->
             ChannelIdData(line, RunEnd(line, 1, WhitespaceChars), FALSE)
      [] clz = "CandumpTimestampedPattern" -> Stamped(line, FALSE, FALSE)
      [] clz = "CandumpDefaultLogPattern" -> Stamped(line, TRUE, FALSE)
      [] clz = "CandumpAbsoluteLogPattern" -> Stamped(line, FALSE, TRUE)

-----------------------------------------------------------------------------
(* logreader: unpack                                                       *)

\* data.replace(' ', '')
WithoutBlanks(data) == SelectSeq(data, LAMBDA c : c # " ")

\* binascii.unhexlify(data): the bytes, or the error of an odd number of
\* digits
Unhexlify(data) ==
    IF Len(data) % 2 = 1 THEN Fail("binascii.Error")
    ELSE Ok([k \in 1..(Len(data) \div 2) |->
                16 * DigitValue(data[2 * k - 1]) + DigitValue(data[2 * k])])

\* float(text) of a text of digits and points: the whole seconds and the
\* digits of the fraction, or the error of a text that is no number
Seconds(text) ==
    LET points == {i \in 1..Len(text) : text[i] = "."}
        point == IF points = {} THEN Len(text) + 1
                 ELSE CHOOSE i \in points : TRUE
    IN  IF Cardinality(points) > 1 \/ Len(text) - Cardinality(points) = 0
        THEN Fail("ValueError")
        ELSE Ok([whole |-> Accumulate(SubSeq(text, 1, point - 1), 10, 0),
                 fraction |-> SubSeq(text, point + 1, Len(text))])

\* the date the W140 was released: 1991-01-01 00:00:00
FirstAbsoluteSecond == 662688000

IsLeapYear(year) ==
    year % 4 = 0 /\ (year % 100 # 0 \/ year % 400 = 0)

DaysInMonth(year, month) ==
    IF month = 2 THEN (IF IsLeapYear(year) THEN 29 ELSE 28)
    ELSE IF month \in {4, 6, 9, 11} THEN 30
    ELSE 31

\* datetime.datetime.strptime(text, "%Y-%m-%d %H:%M:%S.%f") of a text the
\* pattern has matched
DateAndTime(text) ==
    LET N(from, to) == Accumulate(SubSeq(text, from, to), 10, 0)
        year == N(1, 4)
        month == N(6, 7)
        day == N(9, 10)
        hour == N(12, 13)
        minute == N(15, 16)
        second == N(18, 19)
    IN  IF \/ year = 0
           \/ month \notin 1..12
           \/ day \notin 1..DaysInMonth(year, month)
           \/ hour > 23 \/ minute > 59 \/ second > 59
           \/ Len(text) - 20 > 6
        THEN Fail("ValueError")
        ELSE Ok([year |-> year, month |-> month, day |-> day,
                 hour |-> hour, minute |-> minute, second |-> second,
                 fraction |-> SubSeq(text, 21, Len(text))])

DataFrame(channel, frame_id, data, timestamp, timestamp_format) ==
    [channel |-> channel, frame_id |-> frame_id, data |-> data,
     timestamp |-> timestamp, timestamp_format |-> timestamp_format]

\* the part of unpack all patterns share, with the timestamp of the
\* pattern
Unpacked(groups, timestamp, timestamp_format) ==
    IF Unhexlify(WithoutBlanks(groups.can_data)).err # ""
    THEN Unhexlify(WithoutBlanks(groups.can_data))
    ELSE IF timestamp.err # "" THEN timestamp
    ELSE Ok(Some(DataFrame(groups.channel,
                           Accumulate(groups.can_id, 16, 0),
                           Unhexlify(WithoutBlanks(groups.can_data)).val,
                           timestamp.val, timestamp_format)))

\* clz.unpack(match_object)
unpack(clz, groups) ==
    CASE clz = "CandumpDefaultPattern" ->
             Unpacked(groups, Ok(None), "MISSING")
      [] clz = "CandumpTimestampedPattern" ->
             Unpacked(groups,
                 IF Seconds(groups.timestamp).err # ""
                 THEN Seconds(groups.timestamp)
                 ELSE Ok(Some(Seconds(groups.timestamp).val)),
                 IF Seconds(groups.timestamp).err # "" THEN ""
                 ELSE IF Seconds(groups.timestamp).val.whole
                            < FirstAbsoluteSecond
                 THEN "RELATIVE" ELSE "ABSOLUTE")
      [] clz = "CandumpDefaultLogPattern" ->
             Unpacked(groups,
                 IF Seconds(groups.timestamp).err # ""
                 THEN Seconds(groups.timestamp)
                 ELSE Ok(Some(Seconds(groups.timestamp).val)),
                 "ABSOLUTE")
      [] clz = "CandumpAbsoluteLogPattern" ->
             Unpacked(groups,
                 IF DateAndTime(groups.timestamp).err # ""
                 THEN DateAndTime(groups.timestamp)
                 ELSE Ok(Some(DateAndTime(groups.timestamp).val)),
                 "ABSOLUTE")

\* BasePattern.match
match(clz, line) ==
    IF PatternMatch(clz, line) = None THEN Ok(None)
    ELSE unpack(clz, PatternMatch(clz, line)[1])

\* Parser.detect_pattern
RECURSIVE DetectFrom(_, _)
DetectFrom(line, k) ==
    IF k > Len(PatternNames) THEN None
    ELSE IF PatternMatch(PatternNames[k], line) # None
    THEN Some(PatternNames[k])
    ELSE DetectFrom(line, k + 1)

detect_pattern(line) == DetectFrom(line, 1)

\* a parser that detects the pattern of every line anew
PatternAfterParse_redetecting(pattern, line) == detect_pattern(line)

\* self.pattern after Parser.parse(line)
PatternAfterParse(pattern, line) ==
    IF pattern = None THEN detect_pattern(line) ELSE pattern

\* what Parser.parse(line) returns or raises
parse(pattern, line) ==
    IF PatternAfterParse(pattern, line) = None THEN Ok(None)
    ELSE match(PatternAfterParse(pattern, line)[1], line)

-----------------------------------------------------------------------------
(* Log lines                                                               *)

\* vcan-like lines of the channel c0 and the frame id 1F
DefaultLine(data) ==
    <<"c", "0", " ", "1", "F", " ", "[", "1", "]", " ">> \o data

StampedLine(timestamp, data) ==
    <<"(">> \o timestamp \o <<")", " ">> \o DefaultLine(data)

HashedLine(timestamp, data) ==
    <<"(">> \o timestamp
    \o <<")", " ", "c", "0", " ", "1", "F", "#">> \o data

RelativeStamp == <<"1", ".", "5">>
EpochStamp == <<"7", "0", "0", "0", "0", "0", "0", "0", "0">>
NoNumberStamp == <<"1", ".", ".", "5">>

DateStamp(month, day) ==
    <<"2", "0", "2", "1", "-">> \o month \o <<"-">> \o day
    \o <<" ", "1", "2", ":", "0", "4", ":", "4", "5", ".", "4">>

\* lines of the four formats with data that unpack accepts
GoodLines ==
    {DefaultLine(<<"F", "0">>),
     StampedLine(RelativeStamp, <<"F", "0">>),
     HashedLine(RelativeStamp, <<"F", "0">>),
     StampedLine(DateStamp(<<"1", "2">>, <<"1", "9">>), <<"F", "0">>)}

\* further lines that match a pattern and that unpack accepts
OtherGoodLines ==
    {<<" ">> \o DefaultLine(<<"F", "0", " ", "0", "A">>),
     DefaultLine(<<>>),
     DefaultLine(<<"F", "0", "\n">>),
     StampedLine(EpochStamp, <<>>),
     HashedLine(EpochStamp, <<"#", "1", "F", "0">>)}

\* lines that match a pattern and make unpack raise
RaisingLines ==
    {DefaultLine(<<"F">>),
     StampedLine(NoNumberStamp, <<"F", "0">>),
     HashedLine(RelativeStamp, <<"F">>),
     StampedLine(DateStamp(<<"0", "2">>, <<"3", "0">>), <<"F", "0">>)}

\* lines that match no pattern
UnknownLines ==
    {<<>>, <<"x">>,
     <<"c", "0", " ", "1", "f", " ", "[", "1", "]", " ", "F", "0">>,
     <<"c", "0", " ", "1", "F", "#", "F", "0">>,
     HashedLine(RelativeStamp, <<"#">>)}

LogLines == GoodLines \cup OtherGoodLines \cup RaisingLines \cup UnknownLines

-----------------------------------------------------------------------------
(* Parser.parse, call after call                                           *)

\* largest number of parse calls of a run
MaxCalls == 3

\* Parser()
ParserInit ==
    /\ log_stream = None
    /\ log_read = 0
    /\ log_keep_unknowns = FALSE
    /\ log_pattern = None
    /\ log_line = <<>>
    /\ log_frame = None
    /\ log_items = <<>>
    /\ log_state = "constructed"

\* parser.parse(line)
ParseLine ==
    /\ log_state = "constructed"
    /\ Len(log_line) < MaxCalls
    /\ \E line \in LogLines :
         /\ log_pattern' = PatternAfterParse(log_pattern, line)
         /\ log_frame' = Some(parse(log_pattern, line))
         /\ log_line' = Append(log_line, line)
    /\ UNCHANGED <<log_stream, log_read, log_keep_unknowns, log_items,
                 log_state, verVars, msgVars, idxVars, loadVars, ttVars,
                 ecuVars, qryVars>>

ParseNext == ParseLine

ParseInit ==
    /\ ParserInit
    /\ VerIdle /\ MsgIdle /\ IdxIdle /\ LoadIdle /\ TtIdle /\ EcuIdle
    /\ QryIdle

SpecParse == ParseInit /\ [][ParseNext]_vars

-----------------------------------------------------------------------------
(* Properties of the detected format                                       *)

\* the patterns a line matches
FormatsOf(line) ==
    {k \in DOMAIN PatternNames : PatternMatch(PatternNames[k], line) # None}

\* the first pattern of the list that the first of the lines with a
\* format matches, None when no line has a format
FirstFormat(lines) ==
    LET known == {j \in DOMAIN lines : FormatsOf(lines[j]) # {}}
        first == CHOOSE j \in known : \A i \in known : j <= i
    IN  IF known = {} THEN None
        ELSE Some(PatternNames[CHOOSE k \in FormatsOf(lines[first]) :
                                 \A m \in FormatsOf(lines[first]) : k <= m])

\* C29: the format of a parser is the one of the first line with a format
\* among the lines it has parsed, whatever formats the later lines have.
\* While no line had a format the parser has none and parse returns no
\* frame; afterwards parse returns what the fixed pattern alone makes of
\* the line, so that a line of another format gives no frame.
C29_FormatFixedAtFirstMatch ==
    log_state = "constructed" /\ log_line # <<>> =>
        LET line == log_line[Len(log_line)] IN
        /\ log_pattern = FirstFormat(log_line)
        /\ log_pattern = None => log_frame = Some(Ok(None))
        /\ log_pattern # None =>
              /\ log_frame = Some(match(log_pattern[1], line))
              /\ (\E k \in FormatsOf(line) : PatternNames[k] # log_pattern[1])
                    => log_frame = Some(Ok(None))

\* an unknown line, then a line with a timestamp that gave a frame, then a
\* line of the default format that gave none
C29_Witness ==
    /\ log_state = "constructed"
    /\ Len(log_line) = 3
    /\ FormatsOf(log_line[1]) = {}
    /\ FormatsOf(log_line[2]) = {2}
    /\ FormatsOf(log_line[3]) = {1}
    /\ log_pattern = Some("CandumpTimestampedPattern")
    /\ log_frame = Some(Ok(None))

\* the first line with a format makes unpack raise: the format is fixed
\* all the same
C29_WitnessRaised ==
    /\ log_state = "constructed"
    /\ Len(log_line) = 2
    /\ log_line[1] \in RaisingLines
    /\ log_line[2] \in GoodLines
    /\ log_frame[1].err = ""
    /\ log_frame[1].val # None
    /\ log_pattern = FirstFormat(<<log_line[1]>>)

\* every line of the four formats has one format only
C29_OneFormatEach ==
    \A line \in LogLines : Cardinality(FormatsOf(line)) <= 1

-----------------------------------------------------------------------------
(* Parser.iterlines                                                        *)
(*                                                                         *)
(* A stream is the list of its lines as readline returns them: each with   *)
(* its line ending, the last one possibly without.  A step is one next()   *)
(* of the generator: it runs the loop up to the next yield, to the return  *)
(* at the end of the stream, or to an exception.                           *)

\* largest number of lines of a generated stream
MaxLines == 3

\* the lines of the generated streams, without their endings
StreamLines ==
    {DefaultLine(<<"F", "0">>), DefaultLine(<<"F">>),
     StampedLine(RelativeStamp, <<"F", "0">>),
     HashedLine(RelativeStamp, <<"F", "0">>),
     <<>>, <<"x">>}

LineEndings == {<<"\n">>, <<"\r", "\n">>}

\* the streams of up to maxLines lines; the last line of a stream may
\* lack its ending unless it is empty
Streams(maxLines) ==
    LET ended ==
            SeqsUpTo({line \o ending :
                         line \in StreamLines, ending \in LineEndings},
                     maxLines)
    IN  ended
        \cup {[stream EXCEPT ![Len(stream)] =
                   SelectSeq(@, LAMBDA c : c \notin {"\r", "\n"})] :
                 stream \in {s \in ended :
                                /\ s # <<>>
                                /\ s[Len(s)][1] \notin {"\r", "\n"}}}

\* nl.strip('\r\n')
RECURSIVE StripLineEnds(_)
StripLineEnds(nl) ==
    IF nl # <<>> /\ nl[1] \in {"\r", "\n"} THEN StripLineEnds(Tail(nl))
    ELSE IF nl # <<>> /\ nl[Len(nl)] \in {"\r", "\n"}
    THEN StripLineEnds(SubSeq(nl, 1, Len(nl) - 1))
    ELSE nl

\* the generator after a line has been read and parsed: it yields, goes on
\* or is left by the exception
Iterated(run, nl, frame, keep_unknowns) ==
    [read |-> run.read + 1,
     pattern |-> PatternAfterParse(run.pattern, nl),
     lines |-> Append(run.lines, nl),
     frame |-> Some(frame),
     items |-> IF frame.err # "" THEN run.items
               ELSE IF frame.val # None
               THEN Append(run.items, <<nl, frame.val>>)
               ELSE IF keep_unknowns THEN Append(run.items, <<nl, None>>)
               ELSE run.items,
     state |-> IF frame.err # "" THEN "raised"
               ELSE IF frame.val # None \/ keep_unknowns THEN "yielded"
               ELSE "iterating"]

\* the loop of iterlines from a next() up to the yield, the return or the
\* exception
RECURSIVE Resumed(_, _, _)
Resumed(stream, keep_unknowns, run) ==
    IF run.state # "iterating" THEN run
    ELSE IF stream = None \/ run.read = Len(stream[1])
    THEN [run EXCEPT !.state = "ended"]
    ELSE Resumed(stream, keep_unknowns,
                 Iterated(run, StripLineEnds(stream[1][run.read + 1]),
                          parse(run.pattern,
                                StripLineEnds(stream[1][run.read + 1])),
                          keep_unknowns))

\* Parser(stream).iterlines(keep_unknowns)
IterInit ==
    /\ log_stream \in {None} \cup {Some(stream) : stream \in Streams(MaxLines)}
    /\ log_keep_unknowns \in BOOLEAN
    /\ log_read = 0
    /\ log_pattern = None
    /\ log_line = <<>>
    /\ log_frame = None
    /\ log_items = <<>>
    /\ log_state = "yielded"

\* next() of the generator
NextItem ==
    /\ log_state = "yielded"
    /\ LET run == Resumed(log_stream, log_keep_unknowns,
                          [read |-> log_read, pattern |-> log_pattern,
                           lines |-> log_line, frame |-> log_frame,
                           items |-> log_items, state |-> "iterating"])
       IN  /\ log_read' = run.read
           /\ log_pattern' = run.pattern
           /\ log_line' = run.lines
           /\ log_frame' = run.frame
           /\ log_items' = run.items
           /\ log_state' = run.state
    /\ UNCHANGED <<log_stream, log_keep_unknowns, verVars, msgVars, idxVars,
                 loadVars, ttVars, ecuVars, qryVars>>

IterlinesNext == NextItem

IterlinesInit ==
    /\ IterInit
    /\ VerIdle /\ MsgIdle /\ IdxIdle /\ LoadIdle /\ TtIdle /\ EcuIdle
    /\ QryIdle

SpecIterlines == IterlinesInit /\ [][IterlinesNext]_vars

-----------------------------------------------------------------------------
(* Properties of the iteration                                             *)

\* the lines of a stream as iterlines hands them on
StrippedLines(stream) == [k \in DOMAIN stream |-> StripLineEnds(stream[k])]

\* what the k-th line parses to: what the format of the first line with a
\* format makes of it
ParsedAs(lines, k) ==
    IF FirstFormat(SubSeq(lines, 1, k)) = None THEN Ok(None)
    ELSE match(FirstFormat(SubSeq(lines, 1, k))[1], lines[k])

\* the item of the k-th line, if it has one
ItemOf(lines, k, keep_unknowns) ==
    IF ParsedAs(lines, k).err = "" /\ ParsedAs(lines, k).val # None
    THEN <<<<lines[k], ParsedAs(lines, k).val>>>>
    ELSE IF keep_unknowns THEN <<<<lines[k], None>>>>
    ELSE <<>>

\* the items of the first n lines in the order of the stream
ItemsUpTo(lines, n, keep_unknowns) ==
    Flattened([k \in 1..n |-> ItemOf(lines, k, keep_unknowns)], n)

\* C30: an iteration never ends by an exception; when it has ended it has
\* read the whole stream and has yielded, in the order of the stream, an
\* item for every line that parses to a frame and, with keep_unknowns, for
\* every other line an item with None, blank lines included.
C30_YieldsInStreamOrder ==
    /\ log_state # "raised"
    /\ log_state = "ended" /\ log_stream # None =>
          /\ log_read = Len(log_stream[1])
          /\ log_items = ItemsUpTo(StrippedLines(log_stream[1]),
                                   Len(log_stream[1]), log_keep_unknowns)

\* the items yielded so far are those of the lines read so far, unless the
\* line read last has made unpack raise; an iteration that has ended has
\* read the whole stream
C30_YieldsUnlessRaised ==
    log_stream # None /\ log_state # "idle" =>
        /\ log_state = "ended" => log_read = Len(log_stream[1])
        /\ log_items
              = ItemsUpTo(StrippedLines(log_stream[1]),
                          IF log_state = "raised" THEN log_read - 1
                          ELSE log_read,
                          log_keep_unknowns)
        /\ log_state = "raised" =>
              ParsedAs(StrippedLines(log_stream[1]), log_read).err # ""

\* a line with an odd number of hex digits has ended the iteration before
\* the last line of the stream was read
C30_WitnessRaised ==
    /\ log_state = "raised"
    /\ log_stream # None
    /\ log_keep_unknowns
    /\ log_read < Len(log_stream[1])
    /\ log_frame = Some(Fail("binascii.Error"))

\* a stream with a blank line between two frames, read to its end
C30_WitnessBlank ==
    /\ log_state = "ended"
    /\ log_keep_unknowns
    /\ Len(log_items) = 3
    /\ log_items[2] = <<<<>>, None>>
    /\ log_items[1][2] # None
    /\ log_items[3][2] # None

\* without keep_unknowns the unknown first line is left out
C30_WitnessSkipped ==
    /\ log_state = "ended"
    /\ log_stream # None
    /\ ~log_keep_unknowns
    /\ Len(log_stream[1]) = 3
    /\ Len(log_items) = 1
    /\ log_items[1][1] = StrippedLines(log_stream[1])[3]

====
